---- MODULE Spec2Model ----
(***************************************************************************)
(* TicketTracker: the demo-mode lifecycle manager (tickettracker/demo.py), *)
(* the settings route that drives it (views/settings.py) and the           *)
(* attachment store (views/tickets.py, utils/uploads.py).                  *)
(*                                                                         *)
(* A database file is a record [exists, tickets, attachments]; a directory *)
(* of uploaded files is a record [exists, files] where files maps a stored *)
(* name <<directory, n>> to the bytes of the file.                         *)
(***************************************************************************)
EXTENDS Integers, Sequences, FiniteSets, TLC

\* ---------------------------------------------------------------- bounds
MaxTickets == 2
MaxAttachments == 2
MaxUuid == 2
MaxClock == 3
MaxDueDays == 36
MaxAgeDays == 36
MaxBoard == 2
MaxFaults == 1

\* ------------------------------------------------------------ value sets
Bytes == {<<>>, <<1>>, <<2>>}
Placeholder == <<9, 9>>
NewTitles == {"Original"}
EditedTitles == {"Modified"}
FaultPoints == {"none", "create_all", "clear_uploads"}

OriginalFile == <<"root", 1>>
DemoFile == <<"demo", 1>>

EmptyFiles == [n \in {} |-> <<>>]
NoChecksum == <<>>
NoUuid == 0
NoSize == -1
BlankName == <<"", 0>>

\* ---------------------------------------------------- files and database
AbsentDatabase == [exists |-> FALSE, tickets |-> <<>>, attachments |-> <<>>]
EmptyDatabase == [exists |-> TRUE, tickets |-> <<>>, attachments |-> <<>>]
AbsentDirectory == [exists |-> FALSE, files |-> EmptyFiles]
EmptyDirectory == [exists |-> TRUE, files |-> EmptyFiles]

WriteFile(files, name, content) ==
    [n \in (DOMAIN files) \cup {name} |-> IF n = name THEN content ELSE files[n]]

RemoveFile(files, name) ==
    [n \in (DOMAIN files) \ {name} |-> files[n]]

\* shutil.copytree(source, target, dirs_exist_ok=True)
CopyTree(source, target) ==
    [exists |-> TRUE,
     files |-> [n \in (DOMAIN source.files) \cup (DOMAIN target.files) |->
                  IF n \in DOMAIN source.files THEN source.files[n]
                  ELSE target.files[n]]]

compute_stream_sha256(content) == <<"sha256", content>>

FileSize(content) == Len(content)

\* -------------------------------------------------------- DemoModeState
DefaultState ==
    [active |-> FALSE, had_database |-> FALSE, had_uploads |-> FALSE,
     last_loaded_at |-> 0]

NoStateFile == [exists |-> FALSE, payload |-> DefaultState]

DemoModeState_save(st) == [exists |-> TRUE, payload |-> st]

\* ------------------------------------------------------ DemoModeManager
\* mutant: the copy is skipped
_copy_database_skipped(source, target) == target

_copy_database(source, target) ==
    IF source.exists THEN source ELSE target

_clear_uploads(path) == EmptyDirectory

\* mutant: the snapshot is captured again while demo mode is active
_ensure_snapshot_recaptured(st, d, u, sd, su) ==
    [state |-> [st EXCEPT !.had_database = d.exists,
                          !.had_uploads = u.exists /\ DOMAIN u.files # {}],
     snapshot_db |-> IF d.exists THEN d ELSE AbsentDatabase,
     snapshot_uploads |-> IF u.exists THEN u ELSE EmptyDirectory]

_ensure_snapshot(st, d, u, sd, su) ==
    IF st.active
    THEN [state |-> st, snapshot_db |-> sd, snapshot_uploads |-> su]
    ELSE [state |-> [st EXCEPT !.had_database = d.exists,
                               !.had_uploads = u.exists /\ DOMAIN u.files # {}],
          snapshot_db |-> _copy_database(d, AbsentDatabase),
          snapshot_uploads |-> IF u.exists THEN u ELSE EmptyDirectory]

\* mutant: the live uploads directory is not cleared before the copy back
_restore_snapshot_uncleared(st, d, u, sd, su) ==
    [db |-> IF st.had_database /\ sd.exists THEN sd ELSE EmptyDatabase,
     uploads |-> IF st.had_uploads /\ su.exists THEN CopyTree(su, u) ELSE u]

_restore_snapshot(st, d, u, sd, su) ==
    [db |-> IF st.had_database /\ sd.exists
            THEN _copy_database(sd, AbsentDatabase)
            ELSE EmptyDatabase,
     uploads |-> IF st.had_uploads /\ su.exists
                 THEN CopyTree(su, _clear_uploads(u))
                 ELSE _clear_uploads(u)]

\* ------------------------------------------------------------- dataset
\* A dataset file: [exists, valid_json, metadata, tickets]; metadata is
\* [generated_at, keys] with keys the other metadata keys of the file.
WellFormedDate == "2024-05-01T09:00:00Z"
MalformedDate == "not-a-date"

\* _parse_datetime raises DemoModeError on a malformed value
_parse_datetime_raises(text) == text = MalformedDate

_write_attachment_file(files, stored_filename, a) ==
    IF a.has_content THEN WriteFile(files, stored_filename, a.content)
    ELSE IF stored_filename \notin DOMAIN files
         THEN WriteFile(files, stored_filename, Placeholder)
         ELSE files

RECURSIVE LoadAttachments(_, _, _)
\* the ticket-level attachment loop: one file and one row per entry
LoadAttachments(atts, ticket_id, acc) ==
    IF atts = <<>> THEN acc
    ELSE LET a == Head(atts)
             files == _write_attachment_file(acc.files, a.stored_filename, a)
             row == [ticket |-> ticket_id,
                     stored_filename |-> a.stored_filename,
                     size |-> IF a.size # 0 THEN a.size
                              ELSE FileSize(files[a.stored_filename]),
                     checksum |-> NoChecksum,
                     file_uuid |-> NoUuid]
         IN LoadAttachments(Tail(atts), ticket_id,
                            [acc EXCEPT !.files = files,
                                        !.attachments = Append(@, row)])

RECURSIVE _populate(_, _)
\* acc = [raised, tickets, attachments, files]
_populate(entries, acc) ==
    IF entries = <<>> \/ acc.raised THEN acc
    ELSE LET e == Head(entries) IN
         IF e.title = "" \/ e.description = ""
         THEN _populate(Tail(entries), acc)
         ELSE IF _parse_datetime_raises(e.created_at)
         THEN [acc EXCEPT !.raised = TRUE]
         ELSE LET withTicket ==
                    [acc EXCEPT !.tickets =
                        Append(@, [title |-> e.title, description |-> e.description])]
              IN _populate(Tail(entries),
                           LoadAttachments(e.attachments, Len(withTicket.tickets),
                                           withTicket))

\* mutant: the rows are written without a transaction
load_demo_dataset_untransacted(ds, d, u) ==
    IF ~ds.exists THEN [raised |-> "DemoModeError", db |-> d, uploads |-> u]
    ELSE IF ~ds.valid_json THEN [raised |-> "Exception", db |-> d, uploads |-> u]
    ELSE LET r == _populate(ds.tickets,
                            [raised |-> FALSE, tickets |-> <<>>,
                             attachments |-> <<>>, files |-> u.files])
         IN [raised |-> IF r.raised THEN "DemoModeError" ELSE "none",
             db |-> [exists |-> TRUE, tickets |-> r.tickets,
                     attachments |-> r.attachments],
             uploads |-> [exists |-> TRUE, files |-> r.files]]

\* load_demo_dataset(dataset, session, uploads_directory): the rows are
\* replaced inside one transaction, the files are written outside of it.
\* Returns [raised, db, uploads], raised one of "none", "DemoModeError",
\* "Exception".
load_demo_dataset(ds, d, u) ==
    IF ~ds.exists THEN [raised |-> "DemoModeError", db |-> d, uploads |-> u]
    ELSE IF ~ds.valid_json THEN [raised |-> "Exception", db |-> d, uploads |-> u]
    ELSE LET r == _populate(ds.tickets,
                            [raised |-> FALSE, tickets |-> <<>>,
                             attachments |-> <<>>, files |-> u.files])
             written == [exists |-> TRUE, files |-> r.files]
         IN IF r.raised
            THEN [raised |-> "DemoModeError", db |-> d, uploads |-> written]
            ELSE [raised |-> "none",
                  db |-> [exists |-> TRUE, tickets |-> r.tickets,
                          attachments |-> r.attachments],
                  uploads |-> written]

\* persist_dataset's serialisation of the attachment rows of one ticket
\* (_serialize_attachment): no file content is written to the dataset.
SerializeAttachments(d, ticket_id) ==
    LET rows == SelectSeq(d.attachments, LAMBDA r : r.ticket = ticket_id)
    IN [k \in 1..Len(rows) |->
          [stored_filename |-> rows[k].stored_filename,
           has_content |-> FALSE, content |-> <<>>,
           size |-> IF rows[k].size = NoSize THEN 0 ELSE rows[k].size,
           checksum |-> rows[k].checksum,
           file_uuid |-> rows[k].file_uuid]]

\* mutant: the metadata is written afresh
SerializeDataset_fresh_metadata(ds, d, timestamp) ==
    [exists |-> TRUE, valid_json |-> TRUE,
     metadata |-> [generated_at |-> timestamp, keys |-> {}],
     tickets |-> [i \in 1..Len(d.tickets) |->
                    [title |-> d.tickets[i].title,
                     description |-> d.tickets[i].description,
                     created_at |-> WellFormedDate,
                     attachments |-> SerializeAttachments(d, i)]]]

\* The payload persist_dataset writes: every ticket of the database in
\* id order, the existing metadata with generated_at replaced.
SerializeDataset(ds, d, timestamp) ==
    [exists |-> TRUE, valid_json |-> TRUE,
     metadata |-> [generated_at |-> timestamp,
                   keys |-> IF ds.valid_json THEN ds.metadata.keys ELSE {}],
     tickets |-> [i \in 1..Len(d.tickets) |->
                    [title |-> d.tickets[i].title,
                     description |-> d.tickets[i].description,
                     created_at |-> WellFormedDate,
                     attachments |-> SerializeAttachments(d, i)]]]

\* ------------------------------------------------------ bundled datasets
DemoAttachment ==
    [stored_filename |-> DemoFile, has_content |-> TRUE, content |-> <<1>>,
     size |-> 0, checksum |-> NoChecksum, file_uuid |-> NoUuid]

Gateway ==
    [title |-> "Gateway", description |-> "outage", created_at |-> WellFormedDate,
     attachments |-> <<DemoAttachment>>]

Untitled ==
    [title |-> "", description |-> "draft", created_at |-> WellFormedDate,
     attachments |-> <<>>]

Printer(date) ==
    [title |-> "Printer", description |-> "jam", created_at |-> date,
     attachments |-> <<>>]

DatasetFile(entries) ==
    [exists |-> TRUE, valid_json |-> TRUE,
     metadata |-> [generated_at |-> 0, keys |-> {"description"}],
     tickets |-> entries]

MissingDataset ==
    [exists |-> FALSE, valid_json |-> FALSE,
     metadata |-> [generated_at |-> 0, keys |-> {}], tickets |-> <<>>]

\* a dataset file that is not a JSON document
CorruptDataset == [MissingDataset EXCEPT !.exists = TRUE]

InitialDatasets ==
    {DatasetFile(<<Gateway, Untitled>>),
     DatasetFile(<<Gateway, Printer(MalformedDate)>>),
     CorruptDataset,
     MissingDataset}

\* ----------------------------------------------------- attachment store
SharedName(file_uuid) == <<"shared", file_uuid>>

\* mutant: the checksum lookup finds nothing
FirstByChecksum_none(rows, checksum) == 0

\* Attachment.query.filter_by(checksum=checksum).order_by(Attachment.id.asc()).first()
\* as a row index, 0 when there is none
FirstByChecksum(rows, checksum) ==
    LET M == {k \in 1..Len(rows) : rows[k].checksum = checksum}
    IN IF M = {} THEN 0 ELSE CHOOSE k \in M : \A j \in M : k <= j

\* mutant: the stream is left where the reading ended
StreamPosition_at_end(content) == Len(content)

\* compute_stream_sha256: the position of the stream when the function
\* returns.  The stream of an uploaded file can seek, so it is read from the
\* start to the end and put back to the start.
StreamPosition(content) == 0

\* upload.save(target_path) after the checksum was computed: the bytes from
\* the stream's position to its end
upload_save(content) ==
    SubSeq(content, StreamPosition(content) + 1, Len(content))

\* mutant: the stored file of the matching row is taken to be on disk
StoreUpload_unchecked(upload, ticket_id, acc) ==
    IF upload.filename = "" THEN acc
    ELSE
    LET checksum == compute_stream_sha256(upload.content)
        found == FirstByChecksum(acc.attachments, checksum)
        existing == IF found # 0 /\ acc.attachments[found].stored_filename # BlankName
                    THEN found ELSE 0
    IN IF existing # 0
       THEN LET row == acc.attachments[existing]
                minted == row.file_uuid = NoUuid
                file_uuid == IF minted THEN acc.next_uuid + 1 ELSE row.file_uuid
            IN [attachments |->
                    Append([acc.attachments EXCEPT ![existing].file_uuid = file_uuid],
                           [ticket |-> ticket_id,
                            stored_filename |-> row.stored_filename,
                            size |-> row.size,
                            checksum |-> checksum,
                            file_uuid |-> file_uuid]),
                files |-> acc.files,
                next_uuid |-> IF minted THEN acc.next_uuid + 1 ELSE acc.next_uuid]
       ELSE LET file_uuid == acc.next_uuid + 1
                stored_filename == SharedName(file_uuid)
            IN [attachments |->
                    Append(acc.attachments,
                           [ticket |-> ticket_id,
                            stored_filename |-> stored_filename,
                            size |-> FileSize(upload_save(upload.content)),
                            checksum |-> checksum,
                            file_uuid |-> file_uuid]),
                files |-> WriteFile(acc.files, stored_filename, upload_save(upload.content)),
                next_uuid |-> file_uuid]

\* One iteration of the loop of _store_attachments.
\* acc = [attachments, files, next_uuid]
StoreUpload(upload, ticket_id, acc) ==
    IF upload.filename = "" THEN acc
    ELSE
    LET checksum == compute_stream_sha256(upload.content)
        found == FirstByChecksum(acc.attachments, checksum)
        existing == IF found # 0 /\ acc.attachments[found].stored_filename # BlankName
                    THEN found ELSE 0
    IN IF existing # 0
       THEN LET row == acc.attachments[existing]
                minted == row.file_uuid = NoUuid
                file_uuid == IF minted THEN acc.next_uuid + 1 ELSE row.file_uuid
                present == row.stored_filename \in DOMAIN acc.files
                files == IF present THEN acc.files
                         ELSE WriteFile(acc.files, row.stored_filename, upload_save(upload.content))
                file_size == IF present
                             THEN (IF row.size # NoSize THEN row.size
                                   ELSE FileSize(acc.files[row.stored_filename]))
                             ELSE FileSize(upload_save(upload.content))
                backfilled == [acc.attachments EXCEPT ![existing].file_uuid = file_uuid]
            IN [attachments |->
                    Append(backfilled,
                           [ticket |-> ticket_id,
                            stored_filename |-> row.stored_filename,
                            size |-> file_size,
                            checksum |-> checksum,
                            file_uuid |-> file_uuid]),
                files |-> files,
                next_uuid |-> IF minted THEN acc.next_uuid + 1 ELSE acc.next_uuid]
       ELSE LET file_uuid == acc.next_uuid + 1
                stored_filename == SharedName(file_uuid)
            IN [attachments |->
                    Append(acc.attachments,
                           [ticket |-> ticket_id,
                            stored_filename |-> stored_filename,
                            size |-> FileSize(upload_save(upload.content)),
                            checksum |-> checksum,
                            file_uuid |-> file_uuid]),
                files |-> WriteFile(acc.files, stored_filename, upload_save(upload.content)),
                next_uuid |-> file_uuid]

RECURSIVE _store_attachments(_, _, _)
_store_attachments(files, ticket_id, acc) ==
    IF files = <<>> THEN acc
    ELSE _store_attachments(Tail(files), ticket_id,
                            StoreUpload(Head(files), ticket_id, acc))

\* ---------------------------------------------- startup schema backfill
RECURSIVE _backfill_attachment_metadata(_, _, _, _, _)
\* The loop of _backfill_attachment_metadata over the rows in id order, from
\* row k on; canonical maps a checksum to the identifier of the first row
\* that had it. Returns [attachments, next_uuid].
_backfill_attachment_metadata(rows, k, files, canonical, uuid) ==
    IF k > Len(rows) THEN [attachments |-> rows, next_uuid |-> uuid]
    ELSE IF rows[k].stored_filename = BlankName
            \/ rows[k].stored_filename \notin DOMAIN files
    THEN _backfill_attachment_metadata(rows, k + 1, files, canonical, uuid)
    ELSE LET checksum == IF rows[k].checksum # NoChecksum THEN rows[k].checksum
                         ELSE compute_stream_sha256(files[rows[k].stored_filename])
             known == checksum \in DOMAIN canonical
             minted == ~known /\ rows[k].file_uuid = NoUuid
             file_uuid == IF known THEN canonical[checksum]
                          ELSE IF minted THEN uuid + 1 ELSE rows[k].file_uuid
         IN _backfill_attachment_metadata(
                [rows EXCEPT ![k].checksum = checksum, ![k].file_uuid = file_uuid],
                k + 1, files,
                [c \in (DOMAIN canonical) \cup {checksum} |->
                    IF c = checksum THEN file_uuid ELSE canonical[c]],
                IF minted THEN uuid + 1 ELSE uuid)

\* --------------------------------------------------- SLA configuration
\* Times are counted in units of 1/UnitsPerDay of a day from an epoch; a
\* date is a day number; NoDate is None.
UnitsPerDay == 2
NoDate == -1

DayOf(t) == t \div UnitsPerDay
Midnight(day) == day * UnitsPerDay

GRADIENT_STAGE_ORDER == <<"stage0", "stage1", "stage2", "stage3">>
GRADIENT_OVERDUE_KEY == "overdue"
DEFAULT_GRADIENT_COLORS ==
    "stage0" :> "#bae6fd" @@ "stage1" :> "#fde047" @@ "stage2" :> "#fb923c"
    @@ "stage3" :> "#ef4444" @@ "overdue" :> "#7f1d1d"

DEFAULT_DUE_STAGE_DAYS == <<28, 21, 14, 7>>
DEFAULT_PRIORITY_STAGE_DAYS ==
    "Low" :> <<14, 21, 28, 35>> @@ "Medium" :> <<10, 15, 20, 25>>
    @@ "High" :> <<5, 7, 10, 14>> @@ "Critical" :> <<2, 3, 5, 7>>
DEFAULT_PRIORITY_STAGE_DAYS_FALLBACK == <<7, 14, 21, 28>>
DEFAULT_BACKLOG_DUE_DAYS == 21

RECURSIVE InsertDescending(_, _)
InsertDescending(sorted, v) ==
    IF sorted = <<>> THEN <<v>>
    ELSE IF v > Head(sorted) THEN <<v>> \o sorted
    ELSE <<Head(sorted)>> \o InsertDescending(Tail(sorted), v)

RECURSIVE SortDescending(_)
\* list.sort(reverse=True)
SortDescending(values) ==
    IF values = <<>> THEN <<>>
    ELSE InsertDescending(SortDescending(Tail(values)), Head(values))

\* mutant: the thresholds are used in the order they were configured
due_thresholds_unsorted(sla) ==
    IF sla.due_stage_days = <<>> THEN DEFAULT_DUE_STAGE_DAYS
    ELSE sla.due_stage_days

\* SLAConfig.due_thresholds
due_thresholds(sla) ==
    LET thresholds == SortDescending(sla.due_stage_days)
    IN IF thresholds = <<>> THEN DEFAULT_DUE_STAGE_DAYS ELSE thresholds

\* _normalize_stage_values on a list (or None, written <<>>): the values
\* that are non-negative integers, in order
_normalize_stage_values(raw_values) ==
    SelectSeq(raw_values, LAMBDA v : v >= 0)

RECURSIVE RunningTotals(_, _)
RunningTotals(values, running_total) ==
    IF values = <<>> THEN <<>>
    ELSE <<running_total + Head(values)>>
         \o RunningTotals(Tail(values), running_total + Head(values))

\* _to_stage_thresholds: a strictly increasing list is taken as it is, any
\* other list is taken as stage lengths and summed up
_to_stage_thresholds(values) ==
    IF values = <<>> THEN <<>>
    ELSE IF \A i \in 1..(Len(values) - 1) : values[i + 1] > values[i]
    THEN values
    ELSE RunningTotals(values, 0)

\* SLAConfig.priority_thresholds
priority_thresholds(sla, priority) ==
    LET raw_thresholds == IF priority \in DOMAIN sla.priority_stage_days
                          THEN sla.priority_stage_days[priority] ELSE <<>>
        thresholds == _to_stage_thresholds(_normalize_stage_values(raw_thresholds))
        default_thresholds ==
            IF priority \in DOMAIN DEFAULT_PRIORITY_STAGE_DAYS
            THEN _to_stage_thresholds(
                     _normalize_stage_values(DEFAULT_PRIORITY_STAGE_DAYS[priority]))
            ELSE <<>>
    IN IF thresholds # <<>> THEN thresholds
       ELSE IF default_thresholds # <<>> THEN default_thresholds
       ELSE _to_stage_thresholds(
                _normalize_stage_values(DEFAULT_PRIORITY_STAGE_DAYS_FALLBACK))

\* A number of days that may be None
NoDays == [is_none |-> TRUE, units |-> 0]
Days(units) == [is_none |-> FALSE, units |-> units]

\* mutant: the limit is the first threshold
remaining_days_first_threshold(sla, priority, age_units) ==
    LET thresholds == priority_thresholds(sla, priority)
    IN Days(thresholds[1] * UnitsPerDay - age_units)

\* SLAConfig.remaining_days, in units; default_due_days is NoDate when None
remaining_days(sla, priority, age_units) ==
    LET thresholds == priority_thresholds(sla, priority)
        limit == IF thresholds # <<>> THEN thresholds[Len(thresholds)]
                 ELSE sla.default_due_days
    IN IF limit = NoDate THEN NoDays
       ELSE Days(limit * UnitsPerDay - age_units)

\* ------------------------------------------------------ ticket colouring
\* A status is a sequence of characters.
Uppercase == <<"A", "C", "H", "I", "O", "P", "R">>
Lowercase == <<"a", "c", "h", "i", "o", "p", "r">>

LowerChar(c) ==
    IF \E i \in 1..Len(Uppercase) : Uppercase[i] = c
    THEN Lowercase[CHOOSE i \in 1..Len(Uppercase) : Uppercase[i] = c]
    ELSE c

\* str.lower
lower(text) == [i \in 1..Len(text) |-> LowerChar(text[i])]

RECURSIVE lstrip(_)
lstrip(text) ==
    IF text # <<>> /\ Head(text) = " " THEN lstrip(Tail(text)) ELSE text

RECURSIVE rstrip(_)
rstrip(text) ==
    IF text # <<>> /\ text[Len(text)] = " "
    THEN rstrip(SubSeq(text, 1, Len(text) - 1)) ELSE text

\* str.strip
strip(text) == rstrip(lstrip(text))

\* str.replace(" ", "_")
underscored(text) == [i \in 1..Len(text) |-> IF text[i] = " " THEN "_" ELSE text[i]]

NoColor == ""

Put(mapping, key, value) ==
    [k \in (DOMAIN mapping) \cup {key} |-> IF k = key THEN value ELSE mapping[k]]

RECURSIVE _build_status_palette(_, _)
\* statuses: the items of config.colors.statuses in order, as <<key, value>>
_build_status_palette(statuses, palette) ==
    IF statuses = <<>> THEN palette
    ELSE LET normalized_key == lower(strip(Head(statuses)[1]))
             value == Head(statuses)[2]
         IN IF normalized_key = <<>> \/ value = NoColor
            THEN _build_status_palette(Tail(statuses), palette)
            ELSE _build_status_palette(
                     Tail(statuses),
                     Put(Put(palette, normalized_key, value),
                         underscored(normalized_key), value))

Get(palette, key) == IF key \in DOMAIN palette THEN palette[key] ELSE NoColor

\* mutant: the status is looked up as it is written only
_resolve_status_color_exact(status, palette) ==
    Get(palette, status)

_resolve_status_color(status, palette) ==
    LET normalized == lower(strip(status))
    IN IF normalized = <<>> THEN NoColor
       ELSE IF Get(palette, normalized) # NoColor THEN Get(palette, normalized)
       ELSE Get(palette, underscored(normalized))

\* ColorConfig.gradient_color
gradient_color(colors, key) ==
    IF key \in DOMAIN colors.gradient THEN colors.gradient[key]
    ELSE IF key \in DOMAIN DEFAULT_GRADIENT_COLORS THEN DEFAULT_GRADIENT_COLORS[key]
    ELSE DEFAULT_GRADIENT_COLORS[GRADIENT_STAGE_ORDER[1]]

\* ColorConfig.gradient_stage_color
gradient_stage_color(colors, stage_index) ==
    LET top == Len(GRADIENT_STAGE_ORDER) - 1
        bounded_index == IF stage_index < 0 THEN 0
                         ELSE IF stage_index > top THEN top ELSE stage_index
    IN gradient_color(colors, GRADIENT_STAGE_ORDER[bounded_index + 1])

gradient_overdue_color(colors) == gradient_color(colors, GRADIENT_OVERDUE_KEY)

\* the index (from 0) at which an enumerate loop over a list stops, given
\* the positions that satisfy its test; -1 when none does
FirstIndex(hits) ==
    IF hits = {} THEN -1
    ELSE (CHOOSE i \in hits : \A j \in hits : i <= j) - 1

\* the age in units of a ticket without a due date
AgeUnits(ticket, now) ==
    LET reference_date ==
            IF ticket.age_reference_date # NoDate THEN ticket.age_reference_date
            ELSE IF ticket.created_at # NoDate THEN DayOf(ticket.created_at)
            ELSE DayOf(now)
        elapsed == now - Midnight(reference_date)
    IN IF elapsed < 0 THEN 0 ELSE elapsed

\* the stage walk for a ticket with a due date that is not yet due
DueStageIndex(thresholds, remaining_units) ==
    LET index == FirstIndex({i \in 1..Len(thresholds) :
                                remaining_units > thresholds[i] * UnitsPerDay})
    IN IF index # -1 THEN index ELSE Len(thresholds) - 1

\* mutant: a ticket whose age equals a threshold has exceeded it
BacklogStageIndex_strict(thresholds, age_units) ==
    FirstIndex({i \in 1..Len(thresholds) : age_units < thresholds[i] * UnitsPerDay})

\* the stage walk for a ticket without a due date, -1 when the age exceeds
\* every threshold
BacklogStageIndex(thresholds, age_units) ==
    FirstIndex({i \in 1..Len(thresholds) : age_units <= thresholds[i] * UnitsPerDay})

EmptyPalette == [k \in {} |-> NoColor]

_compute_ticket_color(ticket, config, now) ==
    LET palette == _build_status_palette(config.colors.statuses, EmptyPalette)
        status_color == _resolve_status_color(ticket.status, palette)
        overdue_color == gradient_overdue_color(config.colors)
    IN IF status_color # NoColor THEN status_color
       ELSE IF ticket.due_date # NoDate
       THEN LET remaining_units == ticket.due_date - now
                thresholds == due_thresholds(config.sla)
            IN IF remaining_units <= 0 THEN overdue_color
               ELSE IF thresholds = <<>> THEN gradient_stage_color(config.colors, 0)
               ELSE gradient_stage_color(config.colors,
                                         DueStageIndex(thresholds, remaining_units))
       ELSE LET thresholds == priority_thresholds(config.sla, ticket.priority)
                index == BacklogStageIndex(thresholds, AgeUnits(ticket, now))
            IN IF thresholds = <<>> THEN gradient_stage_color(config.colors, 0)
               ELSE IF index # -1 THEN gradient_stage_color(config.colors, index)
               ELSE overdue_color

\* _compute_backlog_remaining_days
_compute_backlog_remaining_days(ticket, config, now) ==
    remaining_days(config.sla, ticket.priority, AgeUnits(ticket, now))

\* math.ceil of a non-negative number of units, in days
CeilDays(units) == (units + UnitsPerDay - 1) \div UnitsPerDay

\* mutant: the day count is rounded down
_format_sla_countdown_floor(remaining_units) ==
    LET magnitude == IF remaining_units >= 0 THEN remaining_units
                     ELSE 0 - remaining_units
        day_count == magnitude \div UnitsPerDay
    IN [prefix |-> IF remaining_units >= 0 THEN "T-" ELSE "T+",
        day_count |-> day_count,
        label |-> IF day_count = 1 THEN "Day" ELSE "Days"]

\* _format_sla_countdown: the parts of "SLA : <prefix><day_count> <label>"
_format_sla_countdown(remaining_units) ==
    LET day_count == IF remaining_units >= 0 THEN CeilDays(remaining_units)
                     ELSE CeilDays(0 - remaining_units)
    IN [prefix |-> IF remaining_units >= 0 THEN "T-" ELSE "T+",
        day_count |-> day_count,
        label |-> IF day_count = 1 THEN "Day" ELSE "Days"]

NoCountdown == [prefix |-> "", day_count |-> 0, label |-> ""]

\* _annotate_ticket_sla: the attributes it attaches to the ticket
_annotate_ticket_sla(ticket, config, now) ==
    IF ticket.due_date # NoDate
    THEN [is_overdue |-> ticket.due_date <= now,
          sla_remaining_days |-> NoDays,
          sla_countdown |-> NoCountdown]
    ELSE LET sla_remaining == _compute_backlog_remaining_days(ticket, config, now)
         IN IF sla_remaining.is_none
            THEN [is_overdue |-> FALSE, sla_remaining_days |-> NoDays,
                  sla_countdown |-> NoCountdown]
            ELSE [is_overdue |-> sla_remaining.units < 0,
                  sla_remaining_days |-> sla_remaining,
                  sla_countdown |-> _format_sla_countdown(sla_remaining.units)]

\* ------------------------------------------------- the configuration
Open == <<"O", "p", "e", "n">>
InProgress == <<"I", "n", " ", "P", "r", "o", "g", "r", "e", "s", "s">>
OnHold == <<"O", "n", " ", "H", "o", "l", "d">>
Resolved == <<"R", "e", "s", "o", "l", "v", "e", "d">>
Closed == <<"C", "l", "o", "s", "e", "d">>
Cancelled == <<"C", "a", "n", "c", "e", "l", "l", "e", "d">>

\* DEFAULT_CONFIG["colors"]["statuses"]
DEFAULT_STATUS_COLORS ==
    << <<underscored(lower(OnHold)), "#9c88ff">>,
       <<lower(Resolved), "#2ed573">>,
       <<lower(Closed), "#57606f">>,
       <<lower(Cancelled), "#747d8c">> >>

\* The configuration load_config returns when there is no configuration
\* file: DEFAULT_CONFIG.
DefaultAppConfig ==
    [demo_mode |-> FALSE,
     priorities |-> <<"Low", "Medium", "High", "Critical">>,
     workflow |-> <<Open, InProgress, OnHold, Resolved, Closed, Cancelled>>,
     sla |-> [due_stage_days |-> DEFAULT_DUE_STAGE_DAYS,
              priority_stage_days |-> DEFAULT_PRIORITY_STAGE_DAYS,
              default_due_days |-> DEFAULT_BACKLOG_DUE_DAYS],
     colors |-> [gradient |-> DEFAULT_GRADIENT_COLORS,
                 statuses |-> DEFAULT_STATUS_COLORS]]

NoConfigFile == [exists |-> FALSE, payload |-> DefaultAppConfig]

\* nothing has been rendered yet
NoRender == [shown |-> FALSE]
NoListing == [shown |-> FALSE]

\* no manager call is in progress; the engine is connected, as it is after
\* create_app's db.create_all()
Idle == [op |-> "idle", todo |-> <<>>, engine |-> "connected",
         rollback |-> FALSE, faults |-> 0,
         entry |-> [db |-> AbsentDatabase, uploads |-> AbsentDirectory]]

\* ----------------------------------------------------------------- state
VARIABLES
    db,                \* the live database file
    uploads,           \* the live uploads directory
    snapshot_db,       \* demo_snapshot/database.sqlite
    snapshot_uploads,  \* demo_snapshot/uploads
    state,             \* DemoModeManager.state
    state_file,        \* demo_snapshot/state.json
    dataset,           \* demo_data/demo_tickets.json
    DEMO_MODE,         \* app.config["DEMO_MODE"]
    next_uuid,         \* the last identifier generate_uuid7() returned
    last_call,         \* the operation that ran last and how it ended
    pre_demo,          \* history: the live store when demo mode was entered
    APP_CONFIG,        \* app.config["APP_CONFIG"]
    config_file,       \* config.json
    rendered,          \* the ticket page rendered last
    listing,           \* the ticket list rendered last
    run                \* the manager call in progress, statement by statement

view_vars == <<APP_CONFIG, config_file, rendered, listing, run>>

vars == <<db, uploads, snapshot_db, snapshot_uploads, state, state_file,
          dataset, DEMO_MODE, next_uuid, last_call, pre_demo,
          APP_CONFIG, config_file, rendered, listing, run>>

\* a process started without a configuration file that has rendered nothing
DefaultView ==
    /\ APP_CONFIG = DefaultAppConfig
    /\ config_file = NoConfigFile
    /\ rendered = NoRender
    /\ listing = NoListing
    /\ run = Idle

Ticket(title) == [title |-> title, description |-> "text"]

Call(op, outcome) == [op |-> op, outcome |-> outcome]

Live == [db |-> db, uploads |-> uploads]

Max(a, b) == IF a >= b THEN a ELSE b

\* datetime.utcnow(): a time later than every timestamp on record
utcnow ==
    1 + Max(Max(state.last_loaded_at, state_file.payload.last_loaded_at),
            dataset.metadata.generated_at)

Init ==
    /\ db \in {EmptyDatabase,
               [EmptyDatabase EXCEPT !.tickets = <<Ticket("Original")>>]}
    /\ uploads \in {EmptyDirectory,
                    [exists |-> TRUE, files |-> WriteFile(EmptyFiles, OriginalFile, <<1>>)]}
    /\ snapshot_db = AbsentDatabase
    /\ snapshot_uploads = AbsentDirectory
    /\ state = DefaultState
    /\ state_file = NoStateFile
    /\ dataset \in InitialDatasets
    /\ DEMO_MODE = FALSE
    /\ next_uuid = 0
    /\ last_call = Call("init", "ok")
    /\ pre_demo = [db |-> AbsentDatabase, uploads |-> AbsentDirectory]
    /\ DefaultView

\* A store upgraded from a release without checksums: the attachment rows of
\* the first ticket name files stored under their own names.
LegacyRow(name, content) ==
    [ticket |-> 1, stored_filename |-> name, size |-> FileSize(content),
     checksum |-> NoChecksum, file_uuid |-> NoUuid]

LegacyStores ==
    {[rows |-> <<>>, files |-> EmptyFiles],
     [rows |-> <<LegacyRow(OriginalFile, <<1>>)>>,
      files |-> WriteFile(EmptyFiles, OriginalFile, <<1>>)],
     [rows |-> <<LegacyRow(OriginalFile, <<1>>)>>, files |-> EmptyFiles]}

\* The state after create_app (db.create_all, run_migrations) on such a store.
StoreInit ==
    /\ \E legacy \in LegacyStores :
          LET filled == _backfill_attachment_metadata(
                            legacy.rows, 1, legacy.files, [c \in {} |-> NoUuid], 0)
          IN /\ db = [exists |-> TRUE, tickets |-> <<Ticket("Original")>>,
                      attachments |-> filled.attachments]
             /\ uploads = [exists |-> TRUE, files |-> legacy.files]
             /\ next_uuid = filled.next_uuid
    /\ snapshot_db = AbsentDatabase
    /\ snapshot_uploads = AbsentDirectory
    /\ state = DefaultState
    /\ state_file = NoStateFile
    /\ dataset = MissingDataset
    /\ DEMO_MODE = FALSE
    /\ last_call = Call("init", "ok")
    /\ pre_demo = [db |-> AbsentDatabase, uploads |-> AbsentDirectory]
    /\ DefaultView

\* ---------------------------------------------- DemoModeManager.enable
\* mutant: the database file is not recreated and its rows are kept
ReplaceLiveState_merged(ds, d, u, fault) ==
    LET r == load_demo_dataset(ds, d, _clear_uploads(u))
    IN IF r.raised # "none" THEN r
       ELSE [r EXCEPT !.db.tickets = d.tickets \o r.db.tickets]

\* The live store at the point where the "replace live state" phase of
\* enable stops, and whether it stopped with an exception.
ReplaceLiveState(ds, d, u, fault) ==
    IF fault = "create_all"
    THEN [raised |-> "Exception", db |-> AbsentDatabase, uploads |-> u]
    ELSE IF fault = "clear_uploads"
    THEN [raised |-> "Exception", db |-> EmptyDatabase, uploads |-> u]
    ELSE load_demo_dataset(ds, EmptyDatabase, _clear_uploads(u))

\* enable() on a manager whose state is st, in an application whose DEMO_MODE
\* is dm: the values of the manager's and the store's variables when the call
\* returns or raises.
enable_from(st, dm, fault) ==
    IF ~dataset.exists
    THEN [raised |-> TRUE, db |-> db, uploads |-> uploads,
          snapshot_db |-> snapshot_db, snapshot_uploads |-> snapshot_uploads,
          state |-> st, state_file |-> state_file, DEMO_MODE |-> dm]
    ELSE
    LET snap == _ensure_snapshot(st, db, uploads, snapshot_db, snapshot_uploads)
        replaced == ReplaceLiveState(dataset, db, uploads, fault)
    IN IF replaced.raised # "none"
       THEN LET restored == _restore_snapshot(snap.state, replaced.db, replaced.uploads,
                                              snap.snapshot_db, snap.snapshot_uploads)
            IN [raised |-> TRUE, db |-> restored.db, uploads |-> restored.uploads,
                snapshot_db |-> snap.snapshot_db,
                snapshot_uploads |-> snap.snapshot_uploads,
                state |-> snap.state, state_file |-> state_file,
                DEMO_MODE |-> dm]
       ELSE LET timestamp == utcnow
                activated == [snap.state EXCEPT !.active = TRUE,
                                                !.last_loaded_at = timestamp]
            IN [raised |-> FALSE, db |-> replaced.db, uploads |-> replaced.uploads,
                snapshot_db |-> snap.snapshot_db,
                snapshot_uploads |-> snap.snapshot_uploads,
                state |-> activated, state_file |-> DemoModeState_save(activated),
                DEMO_MODE |-> TRUE]

\* enable() in the running process
enable(fault) == enable_from(state, DEMO_MODE, fault)

\* The manager's and the store's variables take the values of r.
Returns(r) ==
    /\ r.state.last_loaded_at <= MaxClock
    /\ db' = r.db
    /\ uploads' = r.uploads
    /\ snapshot_db' = r.snapshot_db
    /\ snapshot_uploads' = r.snapshot_uploads
    /\ state' = r.state
    /\ state_file' = r.state_file
    /\ DEMO_MODE' = r.DEMO_MODE
    /\ pre_demo' = IF ~state.active /\ r.state.active THEN Live ELSE pre_demo

Enable ==
    \E fault \in FaultPoints :
        LET r == enable(fault)
        IN /\ Returns(r)
           /\ last_call' = Call("enable", IF r.raised THEN "DemoModeError" ELSE "ok")
           /\ UNCHANGED <<dataset, next_uuid, view_vars>>

\* --------------------------------------------- DemoModeManager.disable
disable_from(st, dm) ==
    IF ~st.active
    THEN [raised |-> FALSE, db |-> db, uploads |-> uploads,
          snapshot_db |-> snapshot_db, snapshot_uploads |-> snapshot_uploads,
          state |-> st, state_file |-> state_file, DEMO_MODE |-> dm]
    ELSE LET restored == _restore_snapshot(st, db, uploads,
                                           snapshot_db, snapshot_uploads)
             deactivated == [st EXCEPT !.active = FALSE, !.last_loaded_at = 0]
         IN [raised |-> FALSE, db |-> restored.db, uploads |-> restored.uploads,
             snapshot_db |-> AbsentDatabase, snapshot_uploads |-> AbsentDirectory,
             state |-> deactivated, state_file |-> DemoModeState_save(deactivated),
             DEMO_MODE |-> FALSE]

\* disable() in the running process
disable == disable_from(state, DEMO_MODE)

Disable ==
    LET r == disable
    IN /\ Returns(r)
       /\ last_call' = Call("disable", IF state.active THEN "ok" ELSE "noop")
       /\ UNCHANGED <<dataset, next_uuid, view_vars>>

\* --------------------------------------------- DemoModeManager.refresh
\* mutant: the check of the active flag is missing
refresh_always_allowed(st) == TRUE

refresh_requires_active(st) == st.active

Refresh ==
    IF ~refresh_requires_active(state)
    THEN /\ last_call' = Call("refresh", "DemoModeError")
         /\ UNCHANGED <<db, uploads, snapshot_db, snapshot_uploads, state,
                        state_file, dataset, DEMO_MODE, next_uuid, pre_demo,
                        view_vars>>
    ELSE \E fault \in FaultPoints :
            LET r == enable(fault)
            IN /\ Returns(r)
               /\ last_call' = Call("refresh", IF r.raised THEN "DemoModeError" ELSE "ok")
               /\ UNCHANGED <<dataset, next_uuid, view_vars>>

\* ------------------------------------- DemoModeManager.persist_dataset
\* mutant: the check of the active flag is missing
persist_dataset_unguarded(st, ds, d) ==
    LET timestamp == utcnow
        stamped == [st EXCEPT !.last_loaded_at = timestamp]
    IN [raised |-> FALSE, dataset |-> SerializeDataset(ds, d, timestamp),
        state |-> stamped, state_file |-> DemoModeState_save(stamped)]

\* [raised, dataset, state, state_file] when the call returns or raises
persist_dataset(st, ds, d) ==
    IF ~st.active \/ ~ds.exists
    THEN [raised |-> TRUE, dataset |-> ds, state |-> st,
          state_file |-> state_file]
    ELSE LET timestamp == utcnow
             stamped == [st EXCEPT !.last_loaded_at = timestamp]
         IN [raised |-> FALSE, dataset |-> SerializeDataset(ds, d, timestamp),
             state |-> stamped, state_file |-> DemoModeState_save(stamped)]

Persisted(r) ==
    /\ r.dataset.metadata.generated_at <= MaxClock
    /\ dataset' = r.dataset
    /\ state' = r.state
    /\ state_file' = r.state_file
    /\ UNCHANGED <<db, uploads, snapshot_db, snapshot_uploads, DEMO_MODE,
                   next_uuid, pre_demo, view_vars>>

PersistDataset ==
    LET r == persist_dataset(state, dataset, db)
    IN /\ Persisted(r)
       /\ last_call' = Call("persist_dataset",
                            IF r.raised THEN "DemoModeError" ELSE "ok")

\* toggle_demo_mode with action=persist
TogglePersist ==
    IF ~state.active
    THEN /\ last_call' = Call("toggle_persist", "flash_error")
         /\ UNCHANGED <<db, uploads, snapshot_db, snapshot_uploads, state,
                        state_file, dataset, DEMO_MODE, next_uuid, pre_demo,
                        view_vars>>
    ELSE LET r == persist_dataset(state, dataset, db)
         IN /\ Persisted(r)
            /\ last_call' = Call("toggle_persist",
                                 IF r.raised THEN "flash_error" ELSE "ok")

\* ------------------------------------------------------- ticket routes
UnchangedManager ==
    UNCHANGED <<snapshot_db, snapshot_uploads, state, state_file, dataset,
                DEMO_MODE, pre_demo, view_vars>>

\* create_ticket (POST) with a non-blank title and description, no files
CreateTicket ==
    \E title \in NewTitles :
        /\ Len(db.tickets) < MaxTickets
        /\ db' = [db EXCEPT !.tickets = Append(@, Ticket(title))]
        /\ last_call' = Call("ticket", "ok")
        /\ UNCHANGED <<uploads, next_uuid>>
        /\ UnchangedManager

\* edit_ticket (POST) changing the title, no files
EditTicket ==
    \E i \in 1..Len(db.tickets), title \in EditedTitles :
        /\ db.tickets[i].title # title
        /\ db' = [db EXCEPT !.tickets[i].title = title]
        /\ last_call' = Call("ticket", "ok")
        /\ UNCHANGED <<uploads, next_uuid>>
        /\ UnchangedManager

Uploads == [filename : {"", "report.txt"}, content : Bytes]
UploadLists == {<<a>> : a \in Uploads} \cup {<<a, b>> : a, b \in Uploads}

\* add_update (POST) with files only: no message, the status unchanged.
\* last_call records "rewritten" when the call wrote a file at a path that
\* an attachment row named and that was missing from disk.
AddUpdate ==
    \E i \in 1..Len(db.tickets), files \in UploadLists :
        LET r == _store_attachments(files, i,
                     [attachments |-> db.attachments, files |-> uploads.files,
                      next_uuid |-> next_uuid])
        IN /\ Len(r.attachments) <= MaxAttachments
           /\ r.next_uuid <= MaxUuid
           /\ db' = [db EXCEPT !.attachments = r.attachments]
           /\ uploads' = [exists |-> TRUE, files |-> r.files]
           /\ next_uuid' = r.next_uuid
           /\ last_call' = Call("add_update",
                                IF \E k \in 1..Len(db.attachments) :
                                      LET name == db.attachments[k].stored_filename
                                      IN /\ name \in DOMAIN r.files
                                         /\ name \notin DOMAIN uploads.files
                                THEN "rewritten" ELSE "ok")
           /\ UnchangedManager

\* a stored file is deleted from the uploads directory out-of-band
RemoveStoredFile ==
    \E name \in DOMAIN uploads.files :
        /\ uploads' = [uploads EXCEPT !.files = RemoveFile(@, name)]
        /\ last_call' = Call("ticket", "ok")
        /\ UNCHANGED <<db, next_uuid>>
        /\ UnchangedManager

\* ------------------------------------------------- the settings routes
\* the fields of the AppConfig dataclass
AppConfigFields ==
    {"secret_key", "database_uri", "uploads_directory", "priorities",
     "hold_reasons", "workflow", "default_submitted_by", "sla", "colors",
     "clipboard_summary", "behavior", "demo_mode", "source_path"}

\* AppConfig.to_json_dict(), on the fields the model keeps
to_json_dict(config) ==
    [demo_mode |-> (config.demo_mode = TRUE),
     priorities |-> config.priorities,
     workflow |-> config.workflow,
     sla |-> [due_stage_days |-> config.sla.due_stage_days,
              priority_stage_days |-> config.sla.priority_stage_days,
              default_due_days |-> config.sla.default_due_days],
     colors |-> [gradient |-> config.colors.gradient,
                 statuses |-> config.colors.statuses]]

\* save_config(config): the configuration file afterwards.  load_config
\* records the path it read, or would have read, as source_path, so the
\* ValueError for an unknown path is not raised in a created application.
save_config(config) == [exists |-> TRUE, payload |-> to_json_dict(config)]

\* None, where the code expects a number of days
NoInt == -1

\* _coerce_non_negative_int(value) for an integer or None
_coerce_non_negative_int(value) == IF value < 0 THEN NoInt ELSE value

\* the values of a list that _coerce_non_negative_int keeps
Sanitized(values) == SelectSeq(values, LAMBDA v : _coerce_non_negative_int(v) # NoInt)

\* _merge_dict(base, overlay) on a dictionary of plain values
_merge_dict(base, overlay) ==
    [k \in DOMAIN base \cup DOMAIN overlay |->
        IF k \in DOMAIN overlay THEN overlay[k] ELSE base[k]]

\* the position of key in a dictionary kept as a sequence of pairs, or 0
KeyIndex(pairs, key) ==
    IF \E i \in 1..Len(pairs) : pairs[i][1] = key
    THEN CHOOSE i \in 1..Len(pairs) : pairs[i][1] = key
    ELSE 0

\* _merge_dict on a dictionary kept in insertion order: the keys of base keep
\* their places and take the values of overlay, new keys follow
RECURSIVE MergePairs(_, _)
MergePairs(base, overlay) ==
    IF overlay = <<>> THEN base
    ELSE LET entry == Head(overlay)
             at == KeyIndex(base, entry[1])
         IN MergePairs(IF at = 0 THEN Append(base, entry)
                       ELSE [base EXCEPT ![at] = entry],
                       Tail(overlay))

\* math.ceil(a / b) for a >= 0 and b > 0
Ceil(a, b) == (a + b - 1) \div b

\* _legacy_stage_thresholds(limit)
_legacy_stage_thresholds(limit) ==
    IF limit <= 0 THEN <<>>
    ELSE LET quarter == Max(1, Ceil(limit, 4))
             half == Max(quarter, Ceil(limit, 2))
             three_quarter == Max(half, Ceil(limit * 3, 4))
             final == Max(three_quarter, limit)
         IN <<quarter, half, three_quarter, final>>

\* sla["priority_open_days"] of a configuration file, {} when it has none
LegacyPriorityOpenDays(sla_config) ==
    IF "priority_open_days" \in DOMAIN sla_config
    THEN sla_config.priority_open_days ELSE [p \in {} |-> 0]

\* load_config(path) for the file config.json, on the fields the model
\* keeps: the file's values laid over DEFAULT_CONFIG, then coerced
load_config(file) ==
    IF ~file.exists THEN DefaultAppConfig
    ELSE LET loaded_data == file.payload
             stages == _merge_dict(DEFAULT_PRIORITY_STAGE_DAYS,
                                   loaded_data.sla.priority_stage_days)
             kept == {p \in DOMAIN stages : Sanitized(stages[p]) # <<>>}
             legacy_priority_open == LegacyPriorityOpenDays(loaded_data.sla)
             expanded == {p \in (DOMAIN legacy_priority_open) \ kept :
                            /\ _coerce_non_negative_int(legacy_priority_open[p]) # NoInt
                            /\ _legacy_stage_thresholds(legacy_priority_open[p]) # <<>>}
             default_due_days ==
                 _coerce_non_negative_int(loaded_data.sla.default_due_days)
         IN [demo_mode |-> loaded_data.demo_mode,
             priorities |-> loaded_data.priorities,
             workflow |-> loaded_data.workflow,
             sla |-> [due_stage_days |-> Sanitized(loaded_data.sla.due_stage_days),
                      priority_stage_days |->
                          [p \in kept \cup expanded |->
                              IF p \in kept THEN Sanitized(stages[p])
                              ELSE _legacy_stage_thresholds(legacy_priority_open[p])],
                      default_due_days |->
                          IF default_due_days = NoInt
                          THEN DEFAULT_BACKLOG_DUE_DAYS ELSE default_due_days],
             colors |-> [gradient |-> _merge_dict(DEFAULT_GRADIENT_COLORS,
                                                  loaded_data.colors.gradient),
                         statuses |-> MergePairs(DEFAULT_STATUS_COLORS,
                                                 loaded_data.colors.statuses)]]

\* What a route or command leaves behind: the manager's and the store's
\* variables, the configuration in memory and on disk, and how it ended.
Outcome(manager, config, file, outcome) ==
    [manager |-> manager, APP_CONFIG |-> config, config_file |-> file,
     outcome |-> outcome]

\* _persist_config(updated_config) after the manager call r: the file is
\* written, then APP_CONFIG and DEMO_MODE are replaced
_persist_config(r, updated_config, outcome) ==
    Outcome([r EXCEPT !.DEMO_MODE = updated_config.demo_mode],
            updated_config, save_config(updated_config), outcome)

\* mutant: the flag is saved whether or not the manager raised
toggle_demo_mode_unchecked(action, fault) ==
    LET config == APP_CONFIG
        r == IF action = "enable" THEN enable(fault) ELSE disable
    IN _persist_config(r, [config EXCEPT !.demo_mode = (action = "enable")],
                       IF r.raised THEN "DemoModeError" ELSE "saved")

\* toggle_demo_mode with action=enable or action=disable
toggle_demo_mode(action, fault) ==
    LET config == APP_CONFIG
    IN IF action = "enable"
       THEN LET r == enable(fault)
            IN IF r.raised
               THEN Outcome(r, config, config_file, "DemoModeError")
               ELSE IF ~config.demo_mode
               THEN _persist_config(r, [config EXCEPT !.demo_mode = TRUE], "saved")
               ELSE Outcome(r, config, config_file, "ok")
       ELSE LET r == disable
            IN IF r.raised
               THEN Outcome(r, config, config_file, "DemoModeError")
               ELSE IF config.demo_mode
               THEN _persist_config(r, [config EXCEPT !.demo_mode = FALSE], "saved")
               ELSE Outcome(r, config, config_file, "ok")

\* mutant: the command line never writes the flag
_persist_demo_flag_skipped(r, value) ==
    Outcome(r, APP_CONFIG, config_file, "ok")

\* _persist_demo_flag(value) after the manager call r
_persist_demo_flag(r, value) ==
    LET config == APP_CONFIG
    IN IF config.demo_mode = value
       THEN Outcome(r, config, config_file, "ok")
       ELSE _persist_config(r, [config EXCEPT !.demo_mode = value], "saved")

\* _handle_demo_action(action) with action enable or disable
_handle_demo_action(action, fault) ==
    IF action = "enable"
    THEN LET r == enable(fault)
         IN IF r.raised
            THEN Outcome(r, APP_CONFIG, config_file, "DemoModeError")
            ELSE _persist_demo_flag(r, TRUE)
    ELSE LET r == disable
         IN IF r.raised
            THEN Outcome(r, APP_CONFIG, config_file, "DemoModeError")
            ELSE _persist_demo_flag(r, FALSE)

\* The values a valid settings form submits, on the fields the model keeps.
SettingsForms ==
    [demo_mode : BOOLEAN,
     workflow : {DefaultAppConfig.workflow, <<Open, Closed>>},
     due_stage_days : {DEFAULT_DUE_STAGE_DAYS, <<30, 10, 20, 5>>}]

\* view_settings: _form_defaults(config) runs first, for GET and for POST,
\* and reads config.auto_return_to_list, which AppConfig does not have.  What
\* follows is the POST branch for a form that passes validation.
view_settings(method, form, fault) ==
    LET config == APP_CONFIG
        unchanged == [raised |-> FALSE, db |-> db, uploads |-> uploads,
                      snapshot_db |-> snapshot_db,
                      snapshot_uploads |-> snapshot_uploads, state |-> state,
                      state_file |-> state_file, DEMO_MODE |-> DEMO_MODE]
    IN IF "auto_return_to_list" \notin AppConfigFields
       THEN Outcome(unchanged, config, config_file, "AttributeError")
       ELSE IF method = "GET"
       THEN Outcome(unchanged, config, config_file, "ok")
       ELSE LET should_enable_demo == form.demo_mode /\ ~config.demo_mode
                should_disable_demo == ~form.demo_mode /\ config.demo_mode
                updated_config ==
                    [config EXCEPT !.workflow = form.workflow,
                                   !.demo_mode = form.demo_mode,
                                   !.sla.due_stage_days = form.due_stage_days]
                r == IF should_enable_demo THEN enable(fault)
                     ELSE IF should_disable_demo THEN disable
                     ELSE unchanged
             IN IF r.raised
                THEN Outcome(r, config, config_file, "DemoModeError")
                ELSE _persist_config(r, updated_config, "saved")

\* The state after a route or command that ended as res.
Routed(op, res) ==
    /\ Returns(res.manager)
    /\ APP_CONFIG' = res.APP_CONFIG
    /\ config_file' = res.config_file
    /\ last_call' = Call(op, res.outcome)
    /\ UNCHANGED <<dataset, next_uuid, rendered, listing, run>>

DemoActions == {"enable", "disable"}

ToggleDemoMode ==
    \E action \in DemoActions, fault \in FaultPoints :
        Routed("toggle_demo_mode", toggle_demo_mode(action, fault))

\* python -m tickettracker.cli demo enable|disable
CliDemo ==
    \E action \in DemoActions, fault \in FaultPoints :
        Routed("cli_demo", _handle_demo_action(action, fault))

\* GET /settings and POST /settings
ViewSettings ==
    \E method \in {"GET", "POST"}, form \in SettingsForms, fault \in FaultPoints :
        Routed(IF method = "GET" THEN "view_settings" ELSE "update_settings",
               view_settings(method, form, fault))

\* ------------------------------------------------------------ create_app
\* DemoModeState.load(snapshot_root)
DemoModeState_load(file) == IF file.exists THEN file.payload ELSE DefaultState

\* create_app(): the configuration is read from config.json, the manager's
\* state from demo_snapshot/state.json, and the manager is brought in line
\* with the flag; a DemoModeError is logged as a warning and startup goes on.
\* The uploads directory and the database file exist in every state of the
\* model, so mkdir and db.create_all() change nothing.
create_app(fault) ==
    LET app_config == load_config(config_file)
        loaded == DemoModeState_load(state_file)
        r == IF app_config.demo_mode
             THEN enable_from(loaded, app_config.demo_mode, fault)
             ELSE IF loaded.active
             THEN disable_from(loaded, app_config.demo_mode)
             ELSE [raised |-> FALSE, db |-> db, uploads |-> uploads,
                   snapshot_db |-> snapshot_db,
                   snapshot_uploads |-> snapshot_uploads, state |-> loaded,
                   state_file |-> state_file, DEMO_MODE |-> app_config.demo_mode]
    IN Outcome(r, app_config, config_file, IF r.raised THEN "warning" ELSE "ok")

\* the process is started, or stopped and started again
CreateApp ==
    \E fault \in FaultPoints :
        Routed("create_app", create_app(fault))

\* create_app() has returned
Started == last_call.op # "init"

\* config.json as installed: absent, or written by hand with demo_mode set
InstalledConfigFiles ==
    {NoConfigFile, save_config([DefaultAppConfig EXCEPT !.demo_mode = TRUE])}

\* An installation about to be started for the first time.
StartInit ==
    /\ db \in {EmptyDatabase,
               [EmptyDatabase EXCEPT !.tickets = <<Ticket("Original")>>]}
    /\ uploads \in {EmptyDirectory,
                    [exists |-> TRUE, files |-> WriteFile(EmptyFiles, OriginalFile, <<1>>)]}
    /\ snapshot_db = AbsentDatabase
    /\ snapshot_uploads = AbsentDirectory
    /\ state = DefaultState
    /\ state_file = NoStateFile
    /\ dataset \in InitialDatasets
    /\ config_file \in InstalledConfigFiles
    /\ APP_CONFIG = load_config(config_file)
    /\ DEMO_MODE = APP_CONFIG.demo_mode
    /\ next_uuid = 0
    /\ last_call = Call("init", "ok")
    /\ pre_demo = [db |-> AbsentDatabase, uploads |-> AbsentDirectory]
    /\ rendered = NoRender
    /\ listing = NoListing
    /\ run = Idle

\* ------------------------------------- the manager, statement by statement
\* A statement is <<method, statement>>.  run.todo holds the statements the
\* call in progress has still to execute.

\* _ensure_snapshot(), which returns at once while demo mode is active
EnsureSnapshotSteps(st) ==
    IF st.active THEN <<>>
    ELSE << <<"_ensure_snapshot", "snapshot_db.unlink">>,
            <<"_ensure_snapshot", "rmtree(snapshot_uploads)">>,
            <<"_ensure_snapshot", "_dispose_engine">>,
            <<"_ensure_snapshot", "_copy_database">>,
            <<"_ensure_snapshot", "copytree">>,
            <<"_ensure_snapshot", "state.had">> >>

\* mutant: the engine is not disposed before the live database is replaced
RestoreSnapshotSteps_connected ==
    << <<"_restore_snapshot", "db_path.unlink">>,
       <<"_restore_snapshot", "database">>,
       <<"_restore_snapshot", "_clear_uploads">>,
       <<"_restore_snapshot", "copytree">> >>

\* _restore_snapshot()
RestoreSnapshotSteps ==
    << <<"_restore_snapshot", "_dispose_engine">>,
       <<"_restore_snapshot", "db_path.unlink">>,
       <<"_restore_snapshot", "database">>,
       <<"_restore_snapshot", "_clear_uploads">>,
       <<"_restore_snapshot", "copytree">> >>

\* the try block of enable()
ReplaceSteps ==
    << <<"try", "_dispose_engine">>,
       <<"try", "db_path.unlink">>,
       <<"try", "create_all">>,
       <<"try", "_clear_uploads">>,
       <<"try", "load_demo_dataset">> >>

\* enable() once the dataset file was found
EnableSteps(st) ==
    EnsureSnapshotSteps(st) \o ReplaceSteps
    \o << <<"enable", "state.active">>,
          <<"enable", "state.save">>,
          <<"enable", "DEMO_MODE">> >>

\* mutant: the snapshot artifacts are deleted first
DisableSteps_eager ==
    << <<"disable", "snapshot_db.unlink">>,
       <<"disable", "rmtree(snapshot_uploads)">> >>
    \o RestoreSnapshotSteps
    \o << <<"disable", "state.active">>,
          <<"disable", "state.save">>,
          <<"disable", "DEMO_MODE">> >>

\* disable() on an active manager
DisableSteps ==
    RestoreSnapshotSteps
    \o << <<"disable", "state.active">>,
          <<"disable", "state.save">>,
          <<"disable", "DEMO_MODE">>,
          <<"disable", "snapshot_db.unlink">>,
          <<"disable", "rmtree(snapshot_uploads)">> >>

\* The manager's and the store's variables as one record.
Manager ==
    [db |-> db, uploads |-> uploads, snapshot_db |-> snapshot_db,
     snapshot_uploads |-> snapshot_uploads, state |-> state,
     state_file |-> state_file, DEMO_MODE |-> DEMO_MODE,
     engine |-> run.engine, raised |-> FALSE]

\* The statement copies or deletes the live database file.
TouchesDatabaseFile(s, m) ==
    \/ s[2] = "db_path.unlink" /\ m.db.exists
    \/ s = <<"_ensure_snapshot", "_copy_database">> /\ m.db.exists
    \/ /\ s = <<"_restore_snapshot", "database">>
       /\ m.state.had_database /\ m.snapshot_db.exists

\* The statement uses the database through the engine.
UsesDatabase(s, m) ==
    \/ s[2] \in {"create_all", "load_demo_dataset"}
    \/ /\ s = <<"_restore_snapshot", "database">>
       /\ ~(m.state.had_database /\ m.snapshot_db.exists)

\* What statement s makes of m when nothing fails outside the program; the
\* dataset load raises by itself on a missing or malformed dataset.
Execute(s, m) ==
    LET connected == IF UsesDatabase(s, m) THEN [m EXCEPT !.engine = "connected"]
                     ELSE m
    IN CASE s[2] = "_dispose_engine" -> [m EXCEPT !.engine = "disposed"]
         [] s[2] = "db_path.unlink" -> [m EXCEPT !.db = AbsentDatabase]
         [] s[2] = "create_all" -> [connected EXCEPT !.db = EmptyDatabase]
         [] s[2] = "_clear_uploads" -> [m EXCEPT !.uploads = _clear_uploads(m.uploads)]
         [] s[2] = "load_demo_dataset" ->
                LET r == load_demo_dataset(dataset, m.db, m.uploads)
                IN [connected EXCEPT !.db = r.db, !.uploads = r.uploads,
                                     !.raised = (r.raised # "none")]
         [] s = <<"_ensure_snapshot", "snapshot_db.unlink">> ->
                [m EXCEPT !.snapshot_db = AbsentDatabase]
         [] s = <<"_ensure_snapshot", "rmtree(snapshot_uploads)">> ->
                [m EXCEPT !.snapshot_uploads = AbsentDirectory]
         [] s = <<"_ensure_snapshot", "_copy_database">> ->
                [m EXCEPT !.snapshot_db = _copy_database(m.db, m.snapshot_db)]
         [] s = <<"_ensure_snapshot", "copytree">> ->
                [m EXCEPT !.snapshot_uploads =
                              IF m.uploads.exists THEN m.uploads ELSE EmptyDirectory]
         [] s = <<"_ensure_snapshot", "state.had">> ->
                [m EXCEPT !.state.had_database = m.db.exists,
                          !.state.had_uploads =
                              m.uploads.exists /\ DOMAIN m.uploads.files # {}]
         [] s = <<"_restore_snapshot", "database">> ->
                IF m.state.had_database /\ m.snapshot_db.exists
                THEN [m EXCEPT !.db = _copy_database(m.snapshot_db, m.db)]
                ELSE [connected EXCEPT !.db = EmptyDatabase]
         [] s = <<"_restore_snapshot", "copytree">> ->
                IF m.state.had_uploads /\ m.snapshot_uploads.exists
                THEN [m EXCEPT !.uploads = CopyTree(m.snapshot_uploads, m.uploads)]
                ELSE m
         [] s = <<"enable", "state.active">> ->
                [m EXCEPT !.state.active = TRUE, !.state.last_loaded_at = utcnow]
         [] s = <<"disable", "state.active">> ->
                [m EXCEPT !.state.active = FALSE, !.state.last_loaded_at = 0]
         [] s[2] = "state.save" -> [m EXCEPT !.state_file = DemoModeState_save(m.state)]
         [] s = <<"enable", "DEMO_MODE">> -> [m EXCEPT !.DEMO_MODE = TRUE]
         [] s = <<"disable", "DEMO_MODE">> -> [m EXCEPT !.DEMO_MODE = FALSE]
         [] s = <<"disable", "snapshot_db.unlink">> ->
                [m EXCEPT !.snapshot_db = AbsentDatabase]
         [] s = <<"disable", "rmtree(snapshot_uploads)">> ->
                [m EXCEPT !.snapshot_uploads = AbsentDirectory]

\* The manager's and the store's variables take the values of m.
Becomes(m) ==
    /\ db' = m.db
    /\ uploads' = m.uploads
    /\ snapshot_db' = m.snapshot_db
    /\ snapshot_uploads' = m.snapshot_uploads
    /\ state' = m.state
    /\ state_file' = m.state_file
    /\ DEMO_MODE' = m.DEMO_MODE

Starts(op, todo) ==
    /\ run.op = "idle"
    /\ utcnow <= MaxClock
    /\ run' = [op |-> op, todo |-> todo, engine |-> run.engine,
               rollback |-> FALSE, faults |-> run.faults, entry |-> Live]
    /\ last_call' = Call(op, "started")
    /\ UNCHANGED <<db, uploads, snapshot_db, snapshot_uploads, state, state_file,
                   dataset, DEMO_MODE, next_uuid, pre_demo,
                   APP_CONFIG, config_file, rendered, listing>>

\* the call returns or raises without having executed a statement
Skips(op, outcome) ==
    /\ run.op = "idle"
    /\ last_call' = Call(op, outcome)
    /\ UNCHANGED <<db, uploads, snapshot_db, snapshot_uploads, state, state_file,
                   dataset, DEMO_MODE, next_uuid, pre_demo, view_vars>>

BeginEnable ==
    IF dataset.exists THEN Starts("enable", EnableSteps(state))
    ELSE Skips("enable", "DemoModeError")

BeginDisable ==
    IF state.active THEN Starts("disable", DisableSteps)
    ELSE Skips("disable", "noop")

BeginRefresh ==
    IF ~state.active THEN Skips("refresh", "DemoModeError")
    ELSE IF dataset.exists THEN Starts("refresh", EnableSteps(state))
    ELSE Skips("refresh", "DemoModeError")

\* The call in progress executes its next statement, which may fail for a
\* reason outside the program (the disk, the database).  A failure inside
\* enable's try block is followed by _restore_snapshot() and a DemoModeError;
\* any other failure ends the call.
Step ==
    /\ run.op # "idle"
    /\ \E fails \in {FALSE} \cup {f \in {TRUE} : run.faults < MaxFaults} :
          LET s == Head(run.todo)
              m == IF fails THEN Manager ELSE Execute(s, Manager)
              raised == fails \/ m.raised
              todo == IF ~raised THEN Tail(run.todo)
                      ELSE IF s[1] = "try" THEN RestoreSnapshotSteps
                      ELSE <<>>
              rollback == run.rollback \/ (raised /\ s[1] = "try")
              faults == IF fails THEN run.faults + 1 ELSE run.faults
              outcome == IF raised THEN "Exception"
                         ELSE IF rollback THEN "DemoModeError" ELSE "ok"
          IN /\ Becomes(m)
             /\ pre_demo' = IF s = <<"enable", "state.active">> /\ ~raised
                               /\ ~state.active
                            THEN run.entry ELSE pre_demo
             /\ IF todo = <<>>
                THEN /\ run' = [Idle EXCEPT !.engine = m.engine, !.faults = faults]
                     /\ last_call' = Call(run.op, outcome)
                ELSE /\ run' = [run EXCEPT !.todo = todo, !.engine = m.engine,
                                           !.faults = faults, !.rollback = rollback]
                     /\ last_call' = Call(run.op, "running")
    /\ UNCHANGED <<dataset, next_uuid, APP_CONFIG, config_file, rendered, listing>>

\* a request between two manager calls reads or writes the database
TicketRequest ==
    /\ run.op = "idle"
    /\ \E title \in EditedTitles :
          /\ Len(db.tickets) < MaxTickets
          /\ db' = [db EXCEPT !.exists = TRUE, !.tickets = Append(@, Ticket(title))]
    /\ run' = [run EXCEPT !.engine = "connected"]
    /\ last_call' = Call("ticket", "ok")
    /\ UNCHANGED <<uploads, snapshot_db, snapshot_uploads, state, state_file,
                   dataset, DEMO_MODE, next_uuid, pre_demo,
                   APP_CONFIG, config_file, rendered, listing>>

\* ------------------------------------------------- the dataset loader
\* an entry with a title and no description
Undescribed ==
    [title |-> "Router", description |-> "", created_at |-> WellFormedDate,
     attachments |-> <<>>]

DatasetEntries ==
    {Gateway, Untitled, Undescribed, Printer(WellFormedDate), Printer(MalformedDate)}

\* the dataset files of up to two entries, an unreadable and a missing one
LoadDatasets ==
    {DatasetFile(<<>>)}
    \cup {DatasetFile(<<a>>) : a \in DatasetEntries}
    \cup {DatasetFile(<<a, b>>) : a, b \in DatasetEntries}
    \cup {CorruptDataset, MissingDataset}

\* the databases the loader is called on: empty, or holding tickets and an
\* attachment row of its own
LoadDatabases ==
    {EmptyDatabase,
     [EmptyDatabase EXCEPT !.tickets = <<Ticket("Original")>>],
     [EmptyDatabase EXCEPT !.tickets = <<Ticket("Original"), Ticket("Modified")>>,
                           !.attachments = <<LegacyRow(OriginalFile, <<1>>)>>]}

LoadInit ==
    /\ db \in LoadDatabases
    /\ uploads \in {EmptyDirectory,
                    [exists |-> TRUE, files |-> WriteFile(EmptyFiles, OriginalFile, <<1>>)]}
    /\ snapshot_db = AbsentDatabase
    /\ snapshot_uploads = AbsentDirectory
    /\ state = DefaultState
    /\ state_file = NoStateFile
    /\ dataset \in LoadDatasets
    /\ DEMO_MODE = FALSE
    /\ next_uuid = 0
    /\ last_call = Call("init", "ok")
    /\ pre_demo = [db |-> AbsentDatabase, uploads |-> AbsentDirectory]
    /\ DefaultView

\* load_demo_dataset(dataset, session=db.session, uploads_directory=...)
LoadDemoDataset ==
    LET r == load_demo_dataset(dataset, db, uploads)
    IN /\ db' = r.db
       /\ uploads' = r.uploads
       /\ last_call' = Call("load_demo_dataset", r.raised)
       /\ UNCHANGED next_uuid
       /\ UnchangedManager

\* ------------------------------------------------------ the ticket page
\* A ticket row with the columns the colouring reads.
ViewTicket(status, priority, due_date, created_at, age_reference_date) ==
    [title |-> "Original", description |-> "text", status |-> status,
     priority |-> priority, due_date |-> due_date, created_at |-> created_at,
     age_reference_date |-> age_reference_date]

Today == MaxAgeDays + 4
Nows == {Midnight(Today), Midnight(Today) + 1}
DueDates == (Midnight(Today) - 2)..(Midnight(Today + MaxDueDays) + 1)
ReferenceDates == (Today - MaxAgeDays - 1)..(Today + 1)
CreationTimes == {NoDate, Midnight(Today - 15) + 1, Midnight(Today), Midnight(Today + 1)}

\* every order in which the values of S can be written in a list
Orderings(S) ==
    {list \in [1..Cardinality(S) -> S] : {list[i] : i \in DOMAIN list} = S}

DueStageDayLists ==
    Orderings({28, 21, 14, 7}) \cup Orderings({30, 20, 10, 5})
    \cup {<<>>, <<10>>, <<10, 10, 3>>, <<50, 40, 30, 20, 10>>}

PriorityStageLists ==
    Orderings({2, 3, 5}) \cup Orderings({14, 35})
    \cup {<<>>, <<14, 21, 28, 35>>, <<0, 0>>, <<3, 3, 3, 3, 3>>}

\* sla.priority_stage_days with the given list for priority Low; load_config
\* drops a priority whose list is empty
WithLow(stage_days) ==
    IF stage_days = <<>>
    THEN [k \in (DOMAIN DEFAULT_PRIORITY_STAGE_DAYS) \ {"Low"} |->
             DEFAULT_PRIORITY_STAGE_DAYS[k]]
    ELSE [DEFAULT_PRIORITY_STAGE_DAYS EXCEPT !["Low"] = stage_days]

SlaConfigs ==
    {[DefaultAppConfig EXCEPT !.sla.due_stage_days = d] : d \in DueStageDayLists}
    \cup {[DefaultAppConfig EXCEPT !.sla.priority_stage_days = WithLow(p)] :
             p \in PriorityStageLists}

DatedTickets ==
    {ViewTicket(Open, "Low", d, NoDate, NoDate) : d \in DueDates}
    \cup {ViewTicket(Open, p, NoDate, NoDate, r) :
             p \in {"Low", "Urgent"}, r \in ReferenceDates}
    \cup {ViewTicket(Open, "Low", NoDate, c, NoDate) : c \in CreationTimes}
    \cup {ViewTicket(Open, "Low", NoDate, Midnight(Today - 1), Today - 20)}

StatusChars == {"h", "H", " ", "_"}
StatusTexts ==
    UNION {[1..n -> StatusChars] : n \in 0..3}
    \cup {OnHold, lower(OnHold), underscored(OnHold), <<" ">> \o OnHold,
          Resolved, Closed, Cancelled, InProgress}

StatusColorMaps ==
    {DEFAULT_STATUS_COLORS,
     <<>>,
     << <<(<<"H", " ", "h">>), "#111111">> >>,
     << <<(<<"h", "_", "h">>), "#111111">> >>,
     << <<(<<" ", "h", " ">>), "#111111">> >>,
     << <<(<<"H", " ", "h">>), NoColor>> >>,
     << <<(<<" ">>), "#111111">> >>}

StatusConfigs ==
    {[DefaultAppConfig EXCEPT !.colors.statuses = m] : m \in StatusColorMaps}

StatusTickets ==
    {ViewTicket(s, "Low", t[1], NoDate, t[2]) :
        s \in StatusTexts,
        t \in {<<Midnight(Today) - 2, NoDate>>,
               <<Midnight(Today + MaxDueDays), NoDate>>,
               <<NoDate, Today - MaxAgeDays - 1>>}}

\* A process with one ticket in the database, configured either with SLA
\* thresholds or with status colours of its own.
ColorInit ==
    /\ \E c \in (SlaConfigs \X DatedTickets) \cup (StatusConfigs \X StatusTickets) :
          /\ APP_CONFIG = c[1]
          /\ db = [exists |-> TRUE, tickets |-> <<c[2]>>, attachments |-> <<>>]
    /\ uploads = EmptyDirectory
    /\ snapshot_db = AbsentDatabase
    /\ snapshot_uploads = AbsentDirectory
    /\ state = DefaultState
    /\ state_file = NoStateFile
    /\ dataset = MissingDataset
    /\ DEMO_MODE = FALSE
    /\ next_uuid = 0
    /\ last_call = Call("init", "ok")
    /\ pre_demo = [db |-> AbsentDatabase, uploads |-> AbsentDirectory]
    /\ config_file = NoConfigFile
    /\ rendered = NoRender
    /\ listing = NoListing
    /\ run = Idle

\* ticket_detail (GET): the colour and the SLA annotation of one ticket
TicketDetail ==
    \E i \in 1..Len(db.tickets), now \in Nows :
        LET ticket == db.tickets[i]
            sla == _annotate_ticket_sla(ticket, APP_CONFIG, now)
        IN /\ rendered' =
                 [shown |-> TRUE, ticket |-> i, now |-> now,
                  display_color |-> _compute_ticket_color(ticket, APP_CONFIG, now),
                  is_overdue |-> sla.is_overdue,
                  sla_remaining_days |-> sla.sla_remaining_days,
                  sla_countdown |-> sla.sla_countdown]
           /\ last_call' = Call("ticket_detail", "ok")
           /\ UNCHANGED <<db, uploads, next_uuid, APP_CONFIG, config_file, listing, run>>
           /\ UNCHANGED <<snapshot_db, snapshot_uploads, state, state_file,
                          dataset, DEMO_MODE, pre_demo>>

\* ------------------------------------------- legacy SLA configuration
MaxLegacyDays == 9

\* config.json written for an earlier release: one open-days limit for one
\* priority and no list of stage days of its own
LegacyConfigFile(priority, limit) ==
    [exists |-> TRUE,
     payload |->
        [to_json_dict(DefaultAppConfig) EXCEPT
            !.priorities = <<"Low", "Medium", "High", "Critical", "Urgent">>,
            !.sla = [due_stage_days |-> DEFAULT_DUE_STAGE_DAYS,
                     priority_stage_days |-> [p \in {} |-> <<>>],
                     default_due_days |-> DEFAULT_BACKLOG_DUE_DAYS,
                     priority_open_days |-> [p \in {priority} |-> limit]]]]

LegacyPriorities == {"Urgent", "Low"}

\* create_app on a legacy configuration file, with one backlog ticket of the
\* priority the file names in the database
LegacyInit ==
    /\ \E priority \in LegacyPriorities, limit \in 0..MaxLegacyDays,
          r \in ReferenceDates :
          /\ config_file = LegacyConfigFile(priority, limit)
          /\ db = [exists |-> TRUE,
                   tickets |-> <<ViewTicket(Open, priority, NoDate, NoDate, r)>>,
                   attachments |-> <<>>]
    /\ APP_CONFIG = load_config(config_file)
    /\ uploads = EmptyDirectory
    /\ snapshot_db = AbsentDatabase
    /\ snapshot_uploads = AbsentDirectory
    /\ state = DefaultState
    /\ state_file = NoStateFile
    /\ dataset = MissingDataset
    /\ DEMO_MODE = FALSE
    /\ next_uuid = 0
    /\ last_call = Call("init", "ok")
    /\ pre_demo = [db |-> AbsentDatabase, uploads |-> AbsentDirectory]
    /\ rendered = NoRender
    /\ listing = NoListing
    /\ run = Idle

\* ------------------------------------------------------ the ticket list
Active == <<"A", "c", "t", "i", "v", "e">>

\* request.args of list_tickets: status and priority; no tag, no search
\* term, the default sort
NoFilter == <<>>
StatusFilters == {NoFilter, Active, Open, Closed, lower(Open)}
PriorityFilters == {"", "Medium", "High"}

BoardTickets ==
    {ViewTicket(s, "Medium", d, Midnight(Today - 1), Today - 1) :
        s \in {Open, InProgress, OnHold, Resolved, Closed, Cancelled},
        d \in {NoDate, Midnight(Today + 1)}}

Boards == UNION {[1..n -> BoardTickets] : n \in 0..MaxBoard}

\* A process whose database holds a board of tickets.
BoardInit ==
    /\ \E board \in Boards :
          db = [exists |-> TRUE, tickets |-> board, attachments |-> <<>>]
    /\ uploads = EmptyDirectory
    /\ snapshot_db = AbsentDatabase
    /\ snapshot_uploads = AbsentDirectory
    /\ state = DefaultState
    /\ state_file = NoStateFile
    /\ dataset = MissingDataset
    /\ DEMO_MODE = FALSE
    /\ next_uuid = 0
    /\ last_call = Call("init", "ok")
    /\ pre_demo = [db |-> AbsentDatabase, uploads |-> AbsentDirectory]
    /\ DefaultView

\* query.filter(Ticket.status == status_filter) and
\* query.filter(Ticket.priority == priority_filter): the ids selected
FilteredIds(tickets, status_filter, priority_filter) ==
    {i \in 1..Len(tickets) :
        /\ status_filter # NoFilter => tickets[i].status = status_filter
        /\ priority_filter # "" => tickets[i].priority = priority_filter}

\* order_by(due_date IS NULL, due_date ASC, priority ASC) with every ticket
\* of the same priority: rows with a due date first, by due date; the
\* database orders equal rows as it pleases
InDueOrder(tickets, order) ==
    \A k \in 1..(Len(order) - 1) :
        LET a == tickets[order[k]].due_date
            b == tickets[order[k + 1]].due_date
        IN \/ b = NoDate
           \/ a # NoDate /\ a <= b

\* list_tickets (GET)
ListTickets ==
    \E status_filter \in StatusFilters, priority_filter \in PriorityFilters,
       now \in {Midnight(Today)} :
        LET ids == FilteredIds(db.tickets, status_filter, priority_filter)
        IN \E order \in [1..Cardinality(ids) -> ids] :
              /\ {order[k] : k \in DOMAIN order} = ids
              /\ InDueOrder(db.tickets, order)
              /\ listing' =
                    [shown |-> TRUE,
                     status |-> status_filter,
                     priority |-> priority_filter,
                     tickets |->
                        [k \in DOMAIN order |->
                            LET ticket == db.tickets[order[k]]
                                sla == _annotate_ticket_sla(ticket, APP_CONFIG, now)
                            IN [id |-> order[k],
                                display_color |->
                                    _compute_ticket_color(ticket, APP_CONFIG, now),
                                is_overdue |-> sla.is_overdue,
                                sla_countdown |-> sla.sla_countdown]]]
              /\ last_call' = Call("list_tickets", "ok")
              /\ UNCHANGED <<db, uploads, next_uuid, APP_CONFIG, config_file, rendered, run>>
              /\ UNCHANGED <<snapshot_db, snapshot_uploads, state, state_file,
                             dataset, DEMO_MODE, pre_demo>>

\* ------------------------------------------------------- specification
\* The demo-mode lifecycle: the manager's operations, the settings route,
\* ticket edits and out-of-band file removal.
Next ==
    \/ Enable
    \/ Disable
    \/ Refresh
    \/ PersistDataset
    \/ TogglePersist
    \/ CreateTicket
    \/ EditTicket
    \/ RemoveStoredFile

Spec == Init /\ [][Next]_vars

\* Curating the demo dataset: files are uploaded while demo mode is active,
\* the dataset is persisted and loaded again.
CurateNext ==
    \/ Enable
    \/ AddUpdate
    \/ PersistDataset
    \/ Refresh

CurateSpec == Init /\ [][CurateNext]_vars

\* The attachment store: uploads to any ticket and out-of-band file removal.
StoreNext ==
    \/ AddUpdate
    \/ RemoveStoredFile
    \/ CreateTicket

StoreSpec == StoreInit /\ [][StoreNext]_vars

\* The ticket page: colouring and SLA annotation of a ticket.
ColorNext ==
    \/ TicketDetail

ColorSpec == ColorInit /\ [][ColorNext]_vars

\* The ticket list and its filters.
BoardNext ==
    \/ ListTickets

BoardSpec == BoardInit /\ [][BoardNext]_vars

\* the demo mode switches of the settings page and of the command line
ToggleNext ==
    \/ ToggleDemoMode
    \/ CliDemo
    \/ ViewSettings
    \/ TogglePersist
    \/ CreateTicket

ToggleSpec == Init /\ [][ToggleNext]_vars

\* the manager's calls, one statement at a time
StepNext ==
    \/ BeginEnable
    \/ BeginDisable
    \/ BeginRefresh
    \/ Step
    \/ TicketRequest

StepSpec == Init /\ [][StepNext]_vars

\* the dataset loader, called on any database
LoadNext ==
    \/ LoadDemoDataset
    \/ CreateTicket
    \/ EditTicket

LoadSpec == LoadInit /\ [][LoadNext]_vars

\* the ticket page of an installation with a legacy configuration file
\* ------------------------------------------------- the on-hold reason
\* Ticket.on_hold_reason is NULL
NoReason == "NULL"

\* a form field that is missing or blank
Blank == <<>>

HoldReasons == {"Awaiting vendor", "Awaiting customer"}

\* request.form of create_ticket, edit_ticket and add_update, on the fields
\* that decide the status and the reason; "" is a reason left blank
HoldForms ==
    [status : {Blank, Open, OnHold, Resolved},
     on_hold_reason : {""} \cup HoldReasons]

\* request.form.get("on_hold_reason") or None
ReasonOrNone(form) ==
    IF form.on_hold_reason = "" THEN NoReason ELSE form.on_hold_reason

\* create_ticket (POST): the ticket that is added
create_ticket(config, form) ==
    LET status == IF form.status # Blank THEN form.status
                  ELSE IF config.workflow # <<>> THEN config.workflow[1]
                  ELSE Open
    IN [title |-> "Original", description |-> "text", status |-> status,
        on_hold_reason |-> IF status # OnHold THEN NoReason
                           ELSE ReasonOrNone(form)]

\* edit_ticket (POST): the ticket as it is committed
edit_ticket(ticket, form) ==
    LET previous_status == ticket.status
        status == IF form.status # Blank THEN form.status ELSE ticket.status
    IN [ticket EXCEPT
           !.status = status,
           !.on_hold_reason =
               IF status # previous_status /\ status # OnHold THEN NoReason
               ELSE ReasonOrNone(form)]

\* add_update (POST): the ticket as it is committed
add_update(ticket, form) ==
    LET new_status == IF form.status # Blank THEN form.status ELSE ticket.status
        hold_reason == ReasonOrNone(form)
    IN IF new_status # ticket.status
       THEN [ticket EXCEPT !.status = new_status,
                           !.on_hold_reason = IF new_status = OnHold
                                              THEN hold_reason ELSE NoReason]
       ELSE ticket

\* a request to a ticket route has committed db as d
Committed(op, outcome, d) ==
    /\ db' = d
    /\ last_call' = Call(op, outcome)
    /\ UNCHANGED <<uploads, next_uuid>>
    /\ UnchangedManager

CreateTicketForm ==
    \E form \in HoldForms :
        /\ Len(db.tickets) < MaxTickets
        /\ Committed("create_ticket", "ok",
                     [db EXCEPT !.tickets = Append(@, create_ticket(APP_CONFIG, form))])

\* the redirect after the commit reads config.auto_return_to_list
EditTicketForm ==
    \E i \in DOMAIN db.tickets, form \in HoldForms :
        Committed("edit_ticket", "AttributeError",
                  [db EXCEPT !.tickets[i] = edit_ticket(@, form)])

AddUpdateForm ==
    \E i \in DOMAIN db.tickets, form \in HoldForms :
        Committed("add_update", "AttributeError",
                  [db EXCEPT !.tickets[i] = add_update(@, form)])

\* a started application without tickets
HoldInit ==
    /\ db = EmptyDatabase
    /\ uploads = EmptyDirectory
    /\ snapshot_db = AbsentDatabase
    /\ snapshot_uploads = AbsentDirectory
    /\ state = DefaultState
    /\ state_file = NoStateFile
    /\ dataset = MissingDataset
    /\ DEMO_MODE = FALSE
    /\ next_uuid = 0
    /\ last_call = Call("init", "ok")
    /\ pre_demo = [db |-> AbsentDatabase, uploads |-> AbsentDirectory]
    /\ DefaultView

HoldNext ==
    \/ CreateTicketForm
    \/ EditTicketForm
    \/ AddUpdateForm

HoldSpec == HoldInit /\ [][HoldNext]_vars

StartNext ==
    \/ CreateApp
    \/ Started /\ ToggleDemoMode
    \/ Started /\ CliDemo
    \/ Started /\ ViewSettings
    \/ Started /\ TogglePersist

StartSpec == StartInit /\ [][StartNext]_vars

LegacyNext == \/ TicketDetail

LegacySpec == LegacyInit /\ [][LegacyNext]_vars

\* =================================================================== C1
\* C1: enable() followed by disable() restores the live store exactly: when
\* disable() has returned from an active manager, the database holds the
\* tickets and attachment rows it held when demo mode was entered and the
\* uploads directory holds the files it held then, with their content, and
\* nothing else.
C1_DisableRestoresLiveStore ==
    last_call = Call("disable", "ok") =>
        /\ db.exists
        /\ db.tickets = pre_demo.db.tickets
        /\ db.attachments = pre_demo.db.attachments
        /\ uploads.files = pre_demo.uploads.files

C1_Witness ==
    /\ last_call = Call("disable", "ok")
    /\ db.tickets # <<>>
    /\ OriginalFile \in DOMAIN uploads.files

\* =================================================================== C2
\* C2: an enable() that raises while the manager is inactive leaves the
\* live database content and the uploads directory content as they were
\* before the call, and the manager inactive.
C2_FailedEnableRollsBack ==
    [][(last_call'.op = "enable" /\ last_call'.outcome = "DemoModeError"
            /\ ~state.active)
        => /\ db' = db
           /\ uploads'.files = uploads.files
           /\ ~state'.active]_vars

C2_Witness ==
    /\ last_call = Call("enable", "DemoModeError")
    /\ ~state.active
    /\ dataset.exists
    /\ snapshot_uploads.exists
    /\ db.tickets # <<>>
    /\ OriginalFile \in DOMAIN uploads.files

\* =================================================================== C3
\* C3: a refresh() that fails leaves the system as it was before the call:
\* the live store holds either what was live immediately before the call
\* or the fully loaded dataset, and the manager does not report active
\* while the pre-demo data has been put back in place of what was live.
C3_FailedRefreshLeavesStore ==
    [][(last_call'.op = "refresh" /\ last_call'.outcome = "DemoModeError"
            /\ state.active)
        => LET loaded == load_demo_dataset(dataset, EmptyDatabase,
                                           _clear_uploads(uploads))
           IN /\ \/ /\ db' = db
                    /\ uploads'.files = uploads.files
                 \/ /\ loaded.raised = "none"
                    /\ db' = loaded.db
                    /\ uploads'.files = loaded.uploads.files
              /\ state'.active => ~(db' = pre_demo.db /\ db' # db)]_vars

\* =================================================================== C4
\* C4: whenever the manager is inactive, neither the snapshot database
\* file nor the snapshot uploads directory exists.
C4_NoSnapshotWhileInactive ==
    ~state.active => ~snapshot_db.exists /\ ~snapshot_uploads.exists

\* =================================================================== C5
\* C5: whenever the manager is active, the snapshot exists and is the live
\* store captured when demo mode was entered; it holds no ticket and no
\* file of the bundled dataset.
C5_SnapshotIsPreDemo ==
    state.active =>
        /\ snapshot_db.exists
        /\ snapshot_uploads.exists
        /\ snapshot_db = pre_demo.db
        /\ snapshot_uploads = pre_demo.uploads
        /\ \A i \in 1..Len(snapshot_db.tickets) :
               snapshot_db.tickets[i].title \notin {"Gateway", "Printer"}
        /\ DemoFile \notin DOMAIN snapshot_uploads.files

C5_Witness ==
    /\ state.active
    /\ last_call = Call("refresh", "ok")
    /\ snapshot_db.tickets # <<>>
    /\ OriginalFile \in DOMAIN snapshot_uploads.files

\* =================================================================== C6
\* C6: when refresh() has returned without error, the database holds one
\* ticket per dataset entry with a title and a description, in order, with
\* the dataset's values; the manager is active; and the snapshot still
\* holds the pre-demo store.
C6_RefreshReloadsDataset ==
    last_call = Call("refresh", "ok") =>
        LET entries == SelectSeq(dataset.tickets,
                                 LAMBDA e : e.title # "" /\ e.description # "")
        IN /\ Len(db.tickets) = Len(entries)
           /\ \A i \in 1..Len(entries) :
                 /\ db.tickets[i].title = entries[i].title
                 /\ db.tickets[i].description = entries[i].description
           /\ state.active
           /\ snapshot_db = pre_demo.db
           /\ snapshot_uploads = pre_demo.uploads

C6_Witness ==
    /\ last_call = Call("refresh", "ok")
    /\ db.tickets # <<>>
    /\ pre_demo.db.tickets # <<>>
    /\ db.tickets # pre_demo.db.tickets

\* =================================================================== C7
\* C7: refresh() on an inactive manager raises DemoModeError and changes
\* neither the live database, the uploads directory, the snapshot
\* directory, the state file, the dataset nor the manager's state.
C7_RefreshInactiveChangesNothing ==
    [][(last_call'.op = "refresh" /\ ~state.active)
        => /\ last_call'.outcome = "DemoModeError"
           /\ UNCHANGED <<db, uploads, snapshot_db, snapshot_uploads,
                          state, state_file, dataset, DEMO_MODE>>]_vars

C7_Witness ==
    /\ last_call = Call("refresh", "DemoModeError")
    /\ ~state.active
    /\ dataset.exists /\ dataset.valid_json

\* =================================================================== C8
\* C8: persist_dataset(), and the settings route's persist action, on an
\* inactive manager fail, leave the dataset file as it was and the
\* manager inactive.
C8_PersistInactiveKeepsDataset ==
    [][(last_call'.op \in {"persist_dataset", "toggle_persist"} /\ ~state.active)
        => /\ last_call'.outcome \in {"DemoModeError", "flash_error"}
           /\ dataset' = dataset
           /\ ~state'.active]_vars

C8_Witness ==
    /\ last_call = Call("persist_dataset", "DemoModeError")
    /\ ~state.active
    /\ dataset.exists /\ dataset.valid_json
    /\ db.tickets # <<>>

\* =================================================================== C9
\* C9: persist_dataset() on an active manager writes a dataset whose ticket
\* list holds every ticket of the database, changes metadata.generated_at,
\* keeps the other metadata keys and leaves the manager active.
C9_PersistWritesDatabase ==
    [][(last_call'.op \in {"persist_dataset", "toggle_persist"}
            /\ last_call'.outcome = "ok")
        => /\ state.active /\ state'.active
           /\ db' = db
           /\ Len(dataset'.tickets) = Len(db.tickets)
           /\ \A i \in 1..Len(db.tickets) :
                 /\ dataset'.tickets[i].title = db.tickets[i].title
                 /\ dataset'.tickets[i].description = db.tickets[i].description
           /\ dataset'.metadata.generated_at # dataset.metadata.generated_at
           /\ dataset'.metadata.keys = dataset.metadata.keys]_vars

C9_Witness ==
    /\ last_call = Call("persist_dataset", "ok")
    /\ state.active
    /\ \E i \in 1..Len(dataset.tickets) : dataset.tickets[i].title = "Original"
    /\ "description" \in dataset.metadata.keys

\* ================================================================== C10
\* C10: attachment rows with the same checksum share the stored filename
\* and the file identifier, and no two files under shared/ hold the same
\* content.
C10_OneFilePerContent ==
    /\ \A i, j \in 1..Len(db.attachments) :
          (db.attachments[i].checksum # NoChecksum
              /\ db.attachments[i].checksum = db.attachments[j].checksum)
          => /\ db.attachments[i].stored_filename = db.attachments[j].stored_filename
             /\ db.attachments[i].file_uuid = db.attachments[j].file_uuid
    /\ \A m, n \in DOMAIN uploads.files :
          (m[1] = "shared" /\ n[1] = "shared" /\ uploads.files[m] = uploads.files[n])
          => m = n

C10_Witness ==
    \E i, j \in 1..Len(db.attachments) :
        /\ i # j
        /\ db.attachments[i].checksum = db.attachments[j].checksum
        /\ db.attachments[i].ticket # db.attachments[j].ticket
        /\ db.attachments[i].stored_filename \in DOMAIN uploads.files
        /\ db.attachments[i].stored_filename[1] = "shared"

\* ================================================================== C11
\* C11 (as stated): an upload whose checksum matches a row whose stored file
\* is missing from disk is handled as in the no-match case: its row names a
\* newly minted identifier and a new path that no earlier row names, and
\* the bytes are at that path.
C11_MissingFileGetsNewPath ==
    [][last_call'.op = "add_update" =>
        \A k \in (Len(db.attachments) + 1)..Len(db'.attachments) :
            LET new == db'.attachments[k]
                found == FirstByChecksum(db.attachments, new.checksum)
            IN (/\ found # 0
                /\ db.attachments[found].stored_filename # BlankName
                /\ db.attachments[found].stored_filename \notin DOMAIN uploads.files)
               => /\ new.file_uuid > next_uuid
                  /\ new.stored_filename = SharedName(new.file_uuid)
                  /\ \A j \in 1..Len(db.attachments) :
                        db.attachments[j].stored_filename # new.stored_filename
                  /\ new.stored_filename \in DOMAIN uploads'.files]_vars

\* C11 (amended): an upload whose checksum matches a row whose stored file
\* is missing from disk succeeds and writes the bytes again at the path the
\* matching row names; its row names that same path and the matching row's
\* identifier, and no other file is created for that content.
C11_MissingFileRewrittenInPlace ==
    [][last_call'.op = "add_update" =>
        \A k \in (Len(db.attachments) + 1)..Len(db'.attachments) :
            LET new == db'.attachments[k]
                found == FirstByChecksum(db.attachments, new.checksum)
            IN (/\ found # 0
                /\ db.attachments[found].stored_filename # BlankName
                /\ db.attachments[found].stored_filename \notin DOMAIN uploads.files)
               => LET path == db.attachments[found].stored_filename
                  IN /\ new.stored_filename = path
                     /\ new.file_uuid = db'.attachments[found].file_uuid
                     /\ new.file_uuid # NoUuid
                     /\ path \in DOMAIN uploads'.files
                     /\ compute_stream_sha256(uploads'.files[path]) = new.checksum
                     /\ \A n \in DOMAIN uploads'.files :
                           uploads'.files[n] = uploads'.files[path]
                           => n \in DOMAIN uploads.files \/ n = path]_vars

C11_Witness ==
    /\ last_call = Call("add_update", "rewritten")
    /\ \E i, j \in 1..Len(db.attachments) :
          /\ i < j
          /\ db.attachments[i].checksum = db.attachments[j].checksum
          /\ db.attachments[i].stored_filename = db.attachments[j].stored_filename
          /\ db.attachments[j].stored_filename \in DOMAIN uploads.files

\* ================================================================== C12
\* C12: a ticket with a due date and no status override that is due at or
\* before now has the overdue colour; otherwise, with the due thresholds in
\* descending order T[0], T[1], ..., it has stage 0 when the days remaining
\* exceed T[1], stage k when they lie in (T[k+1], T[k]], and the last stage
\* when they do not exceed the last threshold (with [28,21,14,7]: 35 and 24
\* days give stage 0, 19 gives 1, 12 gives 2, 6 gives 3).
C12_DueStagesFollowZones ==
    (/\ rendered.shown
     /\ db.tickets[rendered.ticket].due_date # NoDate
     /\ _resolve_status_color(
            db.tickets[rendered.ticket].status,
            _build_status_palette(APP_CONFIG.colors.statuses, EmptyPalette)) = NoColor)
    => LET remaining == db.tickets[rendered.ticket].due_date - rendered.now
           T == SortDescending(APP_CONFIG.sla.due_stage_days)
           stage == Cardinality({k \in 2..Len(T) : remaining <= T[k] * UnitsPerDay})
       IN IF remaining <= 0
          THEN rendered.display_color = gradient_overdue_color(APP_CONFIG.colors)
          ELSE (Len(T) >= 2 /\ \A k \in 1..(Len(T) - 1) : T[k] > T[k + 1]) =>
                  rendered.display_color =
                      gradient_stage_color(APP_CONFIG.colors, stage)

C14_BacklogStageByAge ==
    (/\ rendered.shown
     /\ db.tickets[rendered.ticket].due_date = NoDate
     /\ _resolve_status_color(
            db.tickets[rendered.ticket].status,
            _build_status_palette(APP_CONFIG.colors.statuses, EmptyPalette)) = NoColor)
    => LET ticket == db.tickets[rendered.ticket]
           reference == IF ticket.age_reference_date # NoDate
                        THEN ticket.age_reference_date * UnitsPerDay
                        ELSE IF ticket.created_at # NoDate
                        THEN ticket.created_at - (ticket.created_at % UnitsPerDay)
                        ELSE rendered.now - (rendered.now % UnitsPerDay)
           age == IF rendered.now > reference THEN rendered.now - reference ELSE 0
           T == priority_thresholds(APP_CONFIG.sla, ticket.priority)
           exceeded == Cardinality({k \in DOMAIN T : age > T[k] * UnitsPerDay})
       IN /\ \A k \in 1..(Len(T) - 1) : T[k] <= T[k + 1]
          /\ rendered.display_color =
                IF exceeded = Len(T) THEN gradient_overdue_color(APP_CONFIG.colors)
                ELSE gradient_stage_color(APP_CONFIG.colors, exceeded)

C14_Witness ==
    /\ rendered.shown
    /\ db.tickets[rendered.ticket].due_date = NoDate
    /\ db.tickets[rendered.ticket].age_reference_date = NoDate
    /\ db.tickets[rendered.ticket].created_at = Midnight(Today - 15) + 1
    /\ rendered.now = Midnight(Today)
    /\ APP_CONFIG.sla.priority_stage_days["Low"] = <<14, 21, 28, 35>>
    /\ rendered.display_color = DEFAULT_GRADIENT_COLORS["stage1"]

\* ================================================================== C15
\* C15: the backlog thresholds of a priority are the configured values in
\* ascending order whatever order they were configured in, so the stage,
\* the overdue point and the countdown of a backlog ticket depend on the
\* configured values only: the stage is the number of configured values the
\* age exceeds, and the days remaining count from the largest of them.
C15_BacklogThresholdsSorted ==
    (/\ rendered.shown
     /\ db.tickets[rendered.ticket].due_date = NoDate
     /\ db.tickets[rendered.ticket].status = Open
     /\ db.tickets[rendered.ticket].priority \in DOMAIN APP_CONFIG.sla.priority_stage_days)
    => LET ticket == db.tickets[rendered.ticket]
           configured == APP_CONFIG.sla.priority_stage_days[ticket.priority]
           age == AgeUnits(ticket, rendered.now)
           exceeded == Cardinality({k \in DOMAIN configured :
                                       age > configured[k] * UnitsPerDay})
           largest == CHOOSE v \in {configured[k] : k \in DOMAIN configured} :
                          \A k \in DOMAIN configured : configured[k] <= v
       IN /\ rendered.display_color =
                IF exceeded = Len(configured)
                THEN gradient_overdue_color(APP_CONFIG.colors)
                ELSE gradient_stage_color(APP_CONFIG.colors, exceeded)
          /\ rendered.sla_remaining_days = Days(largest * UnitsPerDay - age)
          /\ rendered.is_overdue = (age > largest * UnitsPerDay)

\* ================================================================== C16
\* C16: when the ticket's status matches the key of a configured status
\* colour, compared without regard to case and surrounding blanks, also with
\* spaces replaced by underscores, the colour is that status colour,
\* whatever the due date, the age and the thresholds.
C16_StatusOverrideWins ==
    rendered.shown
    => LET status == lower(strip(db.tickets[rendered.ticket].status))
           entries == APP_CONFIG.colors.statuses
           matching == {k \in DOMAIN entries :
                           /\ entries[k][2] # NoColor
                           /\ status # <<>>
                           /\ \/ status = lower(strip(entries[k][1]))
                              \/ underscored(status)
                                    = underscored(lower(strip(entries[k][1])))}
       IN matching # {} =>
             \E k \in matching : rendered.display_color = entries[k][2]

C16_Witness ==
    /\ rendered.shown
    /\ db.tickets[rendered.ticket].status = OnHold
    /\ db.tickets[rendered.ticket].due_date # NoDate
    /\ db.tickets[rendered.ticket].due_date < rendered.now
    /\ rendered.is_overdue
    /\ rendered.display_color = "#9c88ff"

\* ================================================================== C17
\* C17: for a ticket without a due date, the days remaining are the
\* priority's final threshold (default_due_days when it has none) minus the
\* age; the ticket is overdue exactly when they are negative; the countdown
\* reads T-N with N the ceiling of the days remaining when they are not
\* negative, T+N with N the ceiling of their absolute value when they are,
\* followed by Day when N is 1 and by Days otherwise.
C17_BacklogCountdown ==
    (rendered.shown /\ db.tickets[rendered.ticket].due_date = NoDate)
    => LET ticket == db.tickets[rendered.ticket]
           T == priority_thresholds(APP_CONFIG.sla, ticket.priority)
           limit == IF T # <<>> THEN T[Len(T)] ELSE APP_CONFIG.sla.default_due_days
           remaining == limit * UnitsPerDay - AgeUnits(ticket, rendered.now)
           magnitude == IF remaining >= 0 THEN remaining ELSE 0 - remaining
           N == CHOOSE n \in 0..(magnitude + 1) :
                    /\ n * UnitsPerDay >= magnitude
                    /\ (n - 1) * UnitsPerDay < magnitude
       IN /\ rendered.sla_remaining_days = Days(remaining)
          /\ rendered.is_overdue = (remaining < 0)
          /\ rendered.sla_countdown =
                [prefix |-> IF remaining >= 0 THEN "T-" ELSE "T+",
                 day_count |-> N,
                 label |-> IF N = 1 THEN "Day" ELSE "Days"]

C17_Witness ==
    /\ rendered.shown
    /\ db.tickets[rendered.ticket].due_date = NoDate
    /\ rendered.is_overdue
    /\ rendered.sla_remaining_days = Days(0 - 1)
    /\ rendered.sla_countdown = [prefix |-> "T+", day_count |-> 1, label |-> "Day"]

\* ================================================================== C20
\* C20: the ticket list filtered with status=Active shows every ticket whose
\* status is neither Closed nor Cancelled and no other ticket.
C20_ActiveFilterHidesClosed ==
    (listing.shown /\ listing.status = Active /\ listing.priority = "")
    => {listing.tickets[k].id : k \in DOMAIN listing.tickets}
          = {i \in 1..Len(db.tickets) :
                db.tickets[i].status \notin {Closed, Cancelled}}

\* C18: the settings toggle route, the settings form and the command line
\* never save a demo_mode flip whose manager operation failed: when
\* manager.enable() or manager.disable() raised DemoModeError, the
\* configuration file is left as it was and APP_CONFIG.demo_mode keeps its
\* value (the settings form then saves none of the submitted settings).
C18_FailedFlipIsNotSaved ==
    [][(/\ last_call'.op \in {"toggle_demo_mode", "cli_demo", "update_settings"}
        /\ last_call'.outcome = "DemoModeError")
       => /\ config_file' = config_file
          /\ APP_CONFIG'.demo_mode = APP_CONFIG.demo_mode
          /\ (last_call'.op = "update_settings" => APP_CONFIG' = APP_CONFIG)]_vars

\* enabling failed in a process whose saved flag is off, on the toggle route
C18_Witness ==
    /\ last_call = Call("toggle_demo_mode", "DemoModeError")
    /\ config_file.exists
    /\ ~config_file.payload.demo_mode
    /\ ~APP_CONFIG.demo_mode
    /\ ~state.active

\* C19: settings round trip.  The priority, workflow, SLA and colour values
\* of a valid settings form are written to the configuration file, and the
\* configuration a freshly created application loads from that file carries
\* the same values.
C19_SubmittedSettingsRoundTrip ==
    [][(/\ last_call'.op = "update_settings"
        /\ last_call'.outcome # "DemoModeError")
       => \E form \in SettingsForms :
             LET saved == config_file'.payload
                 loaded == load_config(config_file')
             IN /\ config_file'.exists
                /\ saved.workflow = form.workflow
                /\ saved.sla.due_stage_days = form.due_stage_days
                /\ saved.demo_mode = form.demo_mode
                /\ loaded.workflow = saved.workflow
                /\ loaded.priorities = saved.priorities
                /\ loaded.sla = saved.sla
                /\ loaded.colors = saved.colors
                /\ loaded.demo_mode = saved.demo_mode]_vars

\* C21: disable() on an active manager restores the snapshot, then marks the
\* state inactive and clears the last-loaded timestamp, then saves the state,
\* and only then deletes the snapshot artifacts.  A statement of disable()
\* that deletes a snapshot artifact finds the live store restored and the
\* saved state inactive; while the restore is unfinished, and when it fails,
\* both artifacts are on disk and the manager is active.
C21_SnapshotDeletedAfterRestore ==
    [][run.op = "disable" =>
         LET s == Head(run.todo)
         IN /\ (snapshot_db' # snapshot_db \/ snapshot_uploads' # snapshot_uploads)
               => /\ ~state.active
                  /\ state.last_loaded_at = 0
                  /\ state_file = DemoModeState_save(state)
                  /\ db.tickets = pre_demo.db.tickets
                  /\ db.attachments = pre_demo.db.attachments
                  /\ uploads.files = pre_demo.uploads.files
            /\ s[1] = "_restore_snapshot"
               => /\ state.active /\ state'.active
                  /\ snapshot_db.exists = state.had_database
                  /\ snapshot_db' = snapshot_db
                  /\ snapshot_uploads.exists /\ snapshot_uploads' = snapshot_uploads
            /\ s = <<"disable", "state.save">>
               => /\ ~state.active
                  /\ snapshot_db.exists = state.had_database
                  /\ snapshot_uploads.exists]_vars

\* disable() has restored a ticket and a file and deleted the first artifact
C21_Witness ==
    /\ run.op = "disable"
    /\ run.todo = << <<"disable", "rmtree(snapshot_uploads)">> >>
    /\ ~snapshot_db.exists
    /\ snapshot_uploads.exists
    /\ ~state.active
    /\ Len(db.tickets) > 0
    /\ db = pre_demo.db
    /\ DOMAIN uploads.files # {}

\* C22: in enable, disable and refresh, the rollback of a failed enable
\* included, every statement that copies or deletes the live database file
\* runs with the engine disposed: the engine was disposed before it and the
\* database was not used (schema creation, migration, query, dataset load)
\* since.
C22_EngineDisposedBeforeFileOperation ==
    (run.op # "idle" /\ TouchesDatabaseFile(Head(run.todo), Manager))
        => run.engine = "disposed"

\* the rollback of an enable whose dataset load failed is about to delete the
\* live database file
C22_Witness ==
    /\ run.op = "enable"
    /\ run.rollback
    /\ Head(run.todo) = <<"_restore_snapshot", "db_path.unlink">>
    /\ db.exists
    /\ run.engine = "disposed"
    /\ run.faults = 0

\* C23: the snapshot records whether the live database file and the live
\* uploads directory existed when it was taken: had_database is true exactly
\* when the database file existed and had_uploads exactly when the uploads
\* directory existed, empty or not; after enable() and disable() a database
\* file or uploads directory exists only if it existed before.
C23_SnapshotRecordsExistence ==
    [][/\ state'.active =>
            /\ state'.had_database = pre_demo'.db.exists
            /\ state'.had_uploads = pre_demo'.uploads.exists
       /\ (state.active /\ ~state'.active) =>
            /\ db'.exists = pre_demo.db.exists
            /\ uploads'.exists = pre_demo.uploads.exists]_vars

\* C24: load_demo_dataset replaces the database content atomically.  When it
\* returns, the database holds no row from before the call and one ticket
\* for each dataset entry that has a title and a description, in the order of
\* the dataset; when it raises, the rows are those from before the call.
C24_LoadReplacesRowsAtomically ==
    [][last_call'.op = "load_demo_dataset" =>
         IF last_call'.outcome = "none"
         THEN LET loaded == SelectSeq(dataset.tickets,
                                LAMBDA e : e.title # "" /\ e.description # "")
              IN /\ Len(db'.tickets) = Len(loaded)
                 /\ \A i \in 1..Len(loaded) :
                        /\ db'.tickets[i].title = loaded[i].title
                        /\ db'.tickets[i].description = loaded[i].description
                 /\ \A k \in 1..Len(db'.attachments) :
                        /\ db'.attachments[k].stored_filename = DemoFile
                        /\ loaded[db'.attachments[k].ticket] = Gateway
         ELSE /\ db'.tickets = db.tickets
              /\ db'.attachments = db.attachments]_vars

\* a load that raised at the second entry of the dataset, on a database
\* that held two tickets and an attachment row
C24_Witness ==
    /\ last_call = Call("load_demo_dataset", "DemoModeError")
    /\ dataset.exists
    /\ Len(dataset.tickets) = 2
    /\ dataset.tickets[1] = Gateway
    /\ Len(db.tickets) = 2
    /\ Len(db.attachments) = 1
    /\ DemoFile \in DOMAIN uploads.files

\* C25: a priority configured only through the legacy shape, with an
\* open-days limit L > 0, has the backlog thresholds ceil(L/4), ceil(L/2),
\* ceil(3L/4), L: its last threshold is L, and a backlog ticket of that
\* priority is overdue exactly when its age exceeds L days.
C25_LegacyLimitIsLastThreshold ==
    rendered.shown =>
        LET ticket == db.tickets[rendered.ticket]
            legacy == config_file.payload.sla.priority_open_days
            L == legacy[ticket.priority]
            T == priority_thresholds(APP_CONFIG.sla, ticket.priority)
            age_units == AgeUnits(ticket, rendered.now)
        IN L > 0 =>
              /\ T = <<Ceil(L, 4), Ceil(L, 2), Ceil(3 * L, 4), L>>
              /\ rendered.is_overdue <=> (age_units > L * UnitsPerDay)
              /\ (rendered.display_color = gradient_overdue_color(APP_CONFIG.colors))
                    <=> (age_units > L * UnitsPerDay)

\* C26 as stated: after application startup and after every completed demo
\* action issued through the toggle route, the settings form or the command
\* line, the configuration's demo_mode flag equals the manager's is_active.
C26_FlagEqualsIsActive ==
    last_call.op \in {"create_app", "toggle_demo_mode", "cli_demo",
                      "view_settings", "update_settings"}
        => APP_CONFIG.demo_mode = state.active

\* C26, amended: a startup whose manager call did not raise ends with the
\* demo_mode flag equal to is_active, and a demo action through the toggle
\* route, the settings form or the command line that starts with the two
\* equal ends with the two equal, whether the manager operation succeeded or
\* raised DemoModeError.
C26_FlagFollowsManager ==
    [][/\ (last_call' = Call("create_app", "ok")
             => APP_CONFIG'.demo_mode = state'.active)
       /\ ((APP_CONFIG.demo_mode = state.active
             /\ last_call'.op \in {"toggle_demo_mode", "cli_demo",
                                    "view_settings", "update_settings"})
             => APP_CONFIG'.demo_mode = state'.active)]_vars

\* a startup that entered demo mode because config.json asked for it
C26_Witness ==
    /\ last_call = Call("create_app", "ok")
    /\ APP_CONFIG.demo_mode
    /\ state.active
    /\ pre_demo.db.exists

\* C28: after any sequence of create_ticket, edit_ticket and add_update
\* requests, every ticket whose status is not 'On Hold' has no on-hold reason.
C28_ReasonOnlyOnHold ==
    \A i \in DOMAIN db.tickets :
        db.tickets[i].status # OnHold => db.tickets[i].on_hold_reason = NoReason

\* C27: for a ticket without a status override, rendered at one instant, the
\* colour is the overdue colour exactly when the SLA annotation reports the
\* ticket overdue, for tickets with a due date and for backlog tickets of
\* any priority and any number of thresholds; the colour of a ticket that is
\* not overdue is that of one of the gradient stages 0..3.
C27_ColourAgreesWithOverdue ==
    (/\ rendered.shown
     /\ _resolve_status_color(
            db.tickets[rendered.ticket].status,
            _build_status_palette(APP_CONFIG.colors.statuses, EmptyPalette)) = NoColor)
    => LET ticket == db.tickets[rendered.ticket]
           overdue == IF ticket.due_date # NoDate
                      THEN ticket.due_date <= rendered.now
                      ELSE _compute_backlog_remaining_days(
                               ticket, APP_CONFIG, rendered.now).units < 0
       IN /\ rendered.is_overdue = overdue
          /\ (rendered.display_color = gradient_overdue_color(APP_CONFIG.colors))
                <=> rendered.is_overdue
          /\ ~rendered.is_overdue =>
                \E stage \in 0..3 :
                    rendered.display_color =
                        gradient_color(APP_CONFIG.colors,
                                       GRADIENT_STAGE_ORDER[stage + 1])

\* a backlog ticket under five thresholds whose age lies between the fourth
\* and the fifth: not overdue, shown in the colour of the last stage
C27_Witness ==
    /\ rendered.shown
    /\ db.tickets[rendered.ticket].due_date = NoDate
    /\ db.tickets[rendered.ticket].priority = "Low"
    /\ priority_thresholds(APP_CONFIG.sla, "Low") = <<3, 6, 9, 12, 15>>
    /\ AgeUnits(db.tickets[rendered.ticket], rendered.now) = 15 * UnitsPerDay
    /\ ~rendered.is_overdue
    /\ rendered.display_color = gradient_stage_color(APP_CONFIG.colors, 3)

\* C29: persist_dataset() followed by refresh() is a round trip on the demo
\* database: every ticket and attachment row is present afterwards with the
\* same field values (attachment stored filename, size, checksum and
\* file_uuid among them), and no row is added or lost.
C29_PersistRefreshRoundTrip ==
    [][(/\ last_call = Call("persist_dataset", "ok")
        /\ last_call' = Call("refresh", "ok"))
       => /\ db'.tickets = db.tickets
          /\ db'.attachments = db.attachments]_vars

\* C30: in every store the program reaches, _store_attachments creates one
\* row for each upload that has a filename and none for the others; the
\* file each new row names exists afterwards and holds the complete
\* uploaded bytes, whose checksum is the row's checksum, whether the content
\* is new, a duplicate, or a duplicate whose stored file was deleted; a
\* request without a named upload writes no file.
C30_StoredFileHoldsUpload ==
    \A i \in DOMAIN db.tickets, files \in UploadLists :
        LET acc == [attachments |-> db.attachments, files |-> uploads.files,
                    next_uuid |-> next_uuid]
            r == _store_attachments(files, i, acc)
            named == SelectSeq(files, LAMBDA upload : upload.filename # "")
            before == Len(acc.attachments)
        IN /\ Len(r.attachments) = before + Len(named)
           /\ named = <<>> => r.files = acc.files
           /\ \A j \in DOMAIN named :
                 LET row == r.attachments[before + j]
                 IN /\ row.stored_filename \in DOMAIN r.files
                    /\ r.files[row.stored_filename] = named[j].content
                    /\ row.checksum = compute_stream_sha256(named[j].content)
                    /\ compute_stream_sha256(r.files[row.stored_filename])
                          = row.checksum

\* an upload whose content an earlier row already had and whose stored file
\* had been deleted: the file is back and holds the bytes
C30_Witness ==
    /\ last_call = Call("add_update", "rewritten")
    /\ \E k \in DOMAIN db.attachments :
          /\ db.attachments[k].checksum # NoChecksum
          /\ db.attachments[k].stored_filename \in DOMAIN uploads.files
          /\ compute_stream_sha256(uploads.files[db.attachments[k].stored_filename])
                = db.attachments[k].checksum
          /\ \E j \in DOMAIN db.attachments :
                /\ j < k
                /\ db.attachments[j].stored_filename
                      = db.attachments[k].stored_filename

====
